---- MODULE Spec2Model ----
(***************************************************************************)
(* A model of the ngn agent (src/src/ngn_agent).                           *)
(*                                                                         *)
(* Part 1: the implementation loop of coder.py: implement_ticket, the      *)
(* retry wrapper _call_with_retry around client.messages.create, and the   *)
(* tool dispatch _dispatch.                                                *)
(*                                                                         *)
(* The provider (client.messages.create) is the environment: each call     *)
(* either returns a response or raises.  A response is any list of at most *)
(* MaxBlocks content blocks, with any stop reason and any input-token      *)
(* count of TokenCounts.                                                   *)
(***************************************************************************)
EXTENDS Integers, Sequences, FiniteSets, TLC

\* ------------------------------------------------------------------------
\* Program constants (coder.py:13-16)
\* ------------------------------------------------------------------------
_MAX_TURNS == 100

_TOKEN_LIMIT == 180000

_MAX_RETRIES == 60

_RETRY_DELAY == 60

\* validator.py:8-9: validate_ticket has constants of its own.
validator_MAX_RETRIES == 60

validator_RETRY_DELAY == 60

\* main.py:22
_POLL_INTERVAL == 30

\* ------------------------------------------------------------------------
\* Bounds of the model
\* ------------------------------------------------------------------------
\* The longest content list a provider response carries.
MaxBlocks == 2

\* The most tool functions called on one file system.
MaxToolCalls == 2

\* The most clone_repo calls on one machine.
MaxClones == 3

\* The most poll cycles of one process.
MaxPolls == 2

\* The most issues one answer of the search holds.
MaxIssues == 2

\* The most ancestors poll_once is let fetch for one ticket.
MaxFetches == 4

\* ------------------------------------------------------------------------
\* Values
\* ------------------------------------------------------------------------
\* Python's None, where a string is expected.
None == "None"

\* The empty dict {} of tool arguments.
EmptyInput == [k \in {} |-> ""]

\* dict.get(key, default)
Get(d, key, default) == IF key \in DOMAIN d THEN d[key] ELSE default

\* The workspace root handed to implement_ticket.
Workspace == "/workspaces/PROJ-1"

\* Input-token counts the provider reports: just under, at and over the limit.
TokenCounts == {_TOKEN_LIMIT - 1, _TOKEN_LIMIT, _TOKEN_LIMIT + 1}

\* response.stop_reason
StopReasons == {"end_turn", "tool_use", "max_tokens"}

\* HTTP status codes an anthropic.APIStatusError carries.
StatusCodes == {400, 429, 500, 503, 529}

\* Content blocks as the provider sends them, before it gives each
\* tool_use block its identifier.
BlockKinds ==
  { [type |-> "text", text |-> "I will look around first."],
    [type |-> "tool_use", name |-> "submit_work",
     input |-> [pr_url |-> "http://pr", summary |-> "done"]],
    [type |-> "tool_use", name |-> "report_blocked",
     input |-> [reason |-> "too ambiguous"]],
    [type |-> "tool_use", name |-> "report_blocked", input |-> EmptyInput],
    [type |-> "tool_use", name |-> "report_blocked", input |-> [reason |-> None]],
    [type |-> "tool_use", name |-> "list_directory", input |-> [path |-> "."]],
    [type |-> "tool_use", name |-> "read_file", input |-> EmptyInput],
    [type |-> "tool_use", name |-> "nonexistent_tool", input |-> EmptyInput] }

\* The identifier of the i-th block of the response of turn t: the provider
\* never repeats an identifier.
ToolUseId(t, i) == t * (MaxBlocks + 1) + i

WithIds(t, kinds) ==
  [i \in 1..Len(kinds) |->
     IF kinds[i].type = "tool_use"
     THEN [type |-> "tool_use", id |-> ToolUseId(t, i),
           name |-> kinds[i].name, input |-> kinds[i].input]
     ELSE kinds[i]]

\* Every response the provider can return to the call of turn t.
Responses(t) ==
  { [content |-> WithIds(t, kinds), stop_reason |-> sr,
     usage |-> [input_tokens |-> n]] :
      kinds \in UNION {[1..len -> BlockKinds] : len \in 0..MaxBlocks},
      sr \in StopReasons, n \in TokenCounts }

\* ------------------------------------------------------------------------
\* State
\* ------------------------------------------------------------------------
\* implement_ticket and _call_with_retry (coder.py)
VARIABLES
  pc,            \* where implement_ticket stands: "turn" (head of the for
                 \* loop), "call" (inside _call_with_retry, about to call the
                 \* provider), "returned" (_call_with_retry has returned a
                 \* response), "except" (_call_with_retry has raised an
                 \* APIStatusError), "done" (implement_ticket has returned),
                 \* "raised" (an exception has left implement_ticket)
  turn,          \* the loop index of implement_ticket (coder.py:185)
  messages,      \* the message history (coder.py:183)
  response,      \* the response of the current turn: <<>> until it is read
  attempt,       \* the loop index of _call_with_retry (coder.py:246)
  last_exc,      \* _call_with_retry's last_exc: <<>> is None, else <<status>>
  exc,           \* the APIStatusError _call_with_retry raised: <<>> or <<status>>
  create_error,  \* the status of the error the latest client.messages.create of
                 \* this turn raised: <<>> when there is none
  slept,         \* seconds of time.sleep in the current _call_with_retry
  creates,       \* client.messages.create calls of the current _call_with_retry
  calls,         \* _call_with_retry invocations of this implement_ticket
  nresponses,    \* responses the provider has returned to this implement_ticket
  dispatched,    \* identifiers handed to _dispatch in the current turn
  result,        \* what implement_ticket returned: <<>> or <<the dict>>
  raised         \* the exception that left implement_ticket, or None

vars == <<pc, turn, messages, response, attempt, last_exc, exc, create_error,
          slept, creates, calls, nresponses, dispatched, result, raised>>

\* The retry loop of validate_ticket (validator.py:52-69) and the one of
\* _call_with_retry (coder.py:245-262), run side by side against one provider.
VARIABLES
  v_loop,        \* validate_ticket's loop: attempt is the loop index, creates the
                 \* client.messages.create calls made, slept the seconds of
                 \* time.sleep, end one of "running", "returned", "raised", and
                 \* error the status of the APIStatusError raised (0: none)
  c_loop,        \* the same for _call_with_retry
  outcome        \* the provider's latest outcome: <<>> before the first,
                 \* <<200>> a response, <<status>> an APIStatusError

retry_vars == <<v_loop, c_loop, outcome>>

\* Both functions are entered with nothing attempted.
LoopStart == [attempt |-> 0, creates |-> 0, slept |-> 0, end |-> "running", error |-> 0]

RetryInit ==
  /\ v_loop = LoopStart
  /\ c_loop = LoopStart
  /\ outcome = <<>>

\* The file tools of coder.py (_read_file, _write_file) over a file system.
VARIABLES
  fs,            \* the file system: a function from the absolute locations that
                 \* exist (sequences of names) to what is there: a directory,
                 \* a file with its content, or a symbolic link with its target
  tool_calls,    \* tool functions called so far
  last_call      \* the latest call: <<>> or <<[name, path, content, value, io,
                 \* lines]>>, lines being the lines of a directory listing,
                 \* value being the string returned and io the file system
                 \* operations performed, in order

files_vars == <<fs, tool_calls, last_call>>

\* The shell tool of coder.py (_run_command) in the agent's process.
VARIABLES
  shell_pc,      \* "exec": the agent's process is about to be started;
                 \* "up": it runs
  environ,       \* os.environ of the agent's process: names to values
  shell_calls,   \* _run_command calls so far
  last_run       \* the latest _run_command: <<>> or <<[command, cwd, env, ended,
                 \* stdout, stderr, returncode, value]>>, cwd and env being
                 \* what subprocess.run was handed, ended how the subprocess
                 \* ended, stdout, stderr and returncode what it left, value
                 \* the string returned

shell_vars == <<shell_pc, environ, shell_calls, last_run>>

\* clone_repo (git.py) on the agent's machine.
VARIABLES
  disk,          \* the file system clone_repo acts on (as fs above)
  git_runs,      \* the argument lists subprocess.run has been called with
  clone_calls,   \* clone_repo calls so far
  last_clone,    \* the latest clone_repo: <<>> or <<[repo_url, dest,
                 \* returncode, raised, stale]>>, returncode being how git
                 \* ended, raised None or the name of the exception, and
                 \* stale whether the agent's work lay in dest at the call
  last_query     \* the find_resume_branch that followed the latest clone_repo:
                 \* <<>> (none yet) or <<[repo_url, branch,
                 \* run, argv, value, raised]>>, run being how subprocess.run
                 \* ended, argv what it was handed, value what was returned
                 \* (<<>>: nothing) and raised the exception that left the
                 \* function (None: none)

clone_vars == <<disk, git_runs, clone_calls, last_clone, last_query>>

\* main and poll_once (main.py) against the tracker.
VARIABLES
  main_pc,       \* where main stands: "loop" (head of the while loop), the name
                 \* of the call poll_once makes next, "sleep" (poll_once is
                 \* over, main.py:98-104 is next), "exited" (an exception has
                 \* left main)
  polls,         \* poll_once calls so far
  tracker,       \* the tracker: for each issue key its status, its labels and
                 \* the comments posted on it
  tickets,       \* the keys of the list get_tickets_from_filter returned in
                 \* this cycle, in its order
  top,           \* tickets[0]["key"] of this cycle: <<>> or <<key>>
  ticket,        \* ticket["key"] of this cycle: <<>> or <<key>>
  ancestors,     \* the keys of the ancestors fetched, outermost first
  validation,    \* what validate_ticket returned: <<>> or <<the dict>>
  workspace_dir, \* workspace of this cycle: <<>> or <<location>>
  resume_branch, \* <<>> is None, else <<the branch>>
  existing_pr_url, \* <<>> is None, else <<the URL>>
  impl,          \* what implement_ticket returned: <<>> or <<the dict>>
  pending,       \* the comment poll_once posts once the ticket is BLOCKED:
                 \* <<>> or <<lines>>
  trace,         \* the calls poll_once has made in this cycle, in order
  escaped,       \* the exception that left poll_once in this cycle, or None
  pause          \* main.py:98-104 after this cycle: <<>> (not reached yet) or
                 \* <<[elapsed, slept, gap]>>: the seconds poll_once took, the
                 \* duration handed to time.sleep (<<>>: not called), and the
                 \* seconds from the start of this cycle to the next pass

poll_vars == <<main_pc, polls, tracker, tickets, top, ticket, ancestors, validation,
               workspace_dir, resume_branch, existing_pr_url, impl, pending,
               trace, escaped, pause>>

\* JiraClient.get_tickets_from_filter (jira.py) against the search of the
\* tracker.
VARIABLES
  last_search,   \* the latest get_tickets_from_filter: <<>> or <<[issues,
                 \* tickets]>>, issues being the list the tracker answered
                 \* with and tickets the list returned
  last_transition \* the latest transition_ticket: <<>> or <<[status_name,
                 \* transitions, sent, raised, before, after]>>: the status
                 \* asked for, the transitions the tracker offers, the
                 \* requests sent, the exception raised (None: none), and
                 \* the status of the issue before and after the call

sort_vars == <<last_search, last_transition>>

\* The start of main (main.py) and the pre-flight checks of validate_setup
\* (jira.py) and _run_validate (main.py).
VARIABLES
  cli_pc,        \* where the process stands: "start", the check validate_setup
                 \* makes next ("auth", "filter", "issuetypes", "statuses"),
                 \* "report" (validate_setup has returned), "polling" (the
                 \* loop of main has been entered), "exited" (sys.exit)
  cli_validate,  \* whether --validate was given
  cli_env,       \* the required names that are set, and not empty, in the
                 \* environment
  http_gets,     \* the paths validate_setup has requested, in order
  checks,        \* the list of results validate_setup builds
  stdout_lines,  \* the lines printed
  exit_code      \* <<>> or <<the code handed to sys.exit>>

setup_vars == <<cli_pc, cli_validate, cli_env, http_gets, checks, stdout_lines,
                exit_code>>

\* The ancestors of a ticket in poll_once (main.py:244-251) and the prompts
\* validate_ticket and implement_ticket build with them.
VARIABLES
  walk_pc,       \* "start"; "ancestor" (head of the while loop, main.py:246,
                 \* its condition true); "validate" (the loop is over);
                 \* "implement" (the ticket is valid and cloned); "over";
                 \* "raised" (get_ticket has raised)
  hierarchy,     \* the tracker: for each issue key its parent, <<>> or <<key>>
  subject,       \* the key of the ticket poll_once has selected
  lineage,       \* the list ancestors of main.py:244, as keys
  fetches,       \* the keys get_ticket has been called with, in order
  validator_prompt, \* the user message of validate_ticket, as its lines
  coder_prompt   \* the user message of implement_ticket, as its lines

walk_vars == <<walk_pc, hierarchy, subject, lineage, fetches, validator_prompt,
               coder_prompt>>

\* What lies outside each part of the model.  poll_once calls clone_repo, so
\* the polling loop acts on the variables of clone_repo too.
beside_coder == <<retry_vars, files_vars, shell_vars, clone_vars, poll_vars, sort_vars,
                 setup_vars, walk_vars>>

beside_retry == <<vars, files_vars, shell_vars, clone_vars, poll_vars, sort_vars,
                 setup_vars, walk_vars>>

beside_files == <<vars, retry_vars, shell_vars, clone_vars, poll_vars, sort_vars,
                 setup_vars, walk_vars>>

beside_shell == <<vars, retry_vars, files_vars, clone_vars, poll_vars, sort_vars,
                 setup_vars, walk_vars>>

beside_clone == <<vars, retry_vars, files_vars, shell_vars, poll_vars, sort_vars,
                 setup_vars, walk_vars>>

beside_poll == <<vars, retry_vars, files_vars, shell_vars, sort_vars, setup_vars,
                walk_vars>>

beside_setup == <<vars, retry_vars, files_vars, shell_vars, clone_vars, poll_vars,
                 sort_vars, walk_vars>>

beside_walk == <<vars, retry_vars, files_vars, shell_vars, clone_vars, poll_vars,
                sort_vars, setup_vars>>

beside_sort == <<vars, retry_vars, files_vars, shell_vars, clone_vars, poll_vars,
                 setup_vars, walk_vars>>

all_vars == <<vars, retry_vars, files_vars, shell_vars, clone_vars, poll_vars,
              sort_vars, setup_vars, walk_vars>>

\* ------------------------------------------------------------------------
\* Strings
\* ------------------------------------------------------------------------
\* The code point of a character.
ord(char) ==
  CASE char = "+" -> 43 [] char = "-" -> 45 [] char = "." -> 46
    [] char = "0" -> 48 [] char = "1" -> 49 [] char = "2" -> 50
    [] char = "3" -> 51 [] char = "4" -> 52 [] char = "5" -> 53
    [] char = "6" -> 54 [] char = "7" -> 55 [] char = "8" -> 56
    [] char = "9" -> 57 [] char = ":" -> 58
    [] char = "J" -> 74 [] char = "O" -> 79 [] char = "P" -> 80
    [] char = "R" -> 82 [] char = "T" -> 84
    [] char = "a" -> 97 [] char = "b" -> 98 [] char = "c" -> 99
    [] char = "d" -> 100 [] char = "e" -> 101 [] char = "g" -> 103
    [] char = "i" -> 105 [] char = "k" -> 107 [] char = "l" -> 108
    [] char = "n" -> 110 [] char = "o" -> 111 [] char = "p" -> 112
    [] char = "r" -> 114 [] char = "s" -> 115 [] char = "t" -> 116
    [] char = "u" -> 117 [] char = "w" -> 119 [] char = "y" -> 121

\* a < b for two str, as Python compares them: by the first character that
\* differs, a proper prefix being the smaller.
RECURSIVE StrLess(_, _)
StrLess(a, b) ==
  IF b = <<>> THEN FALSE
  ELSE IF a = <<>> THEN TRUE
  ELSE IF Head(a) = Head(b) THEN StrLess(Tail(a), Tail(b))
  ELSE ord(Head(a)) < ord(Head(b))

\* ------------------------------------------------------------------------
\* The file system, as pathlib sees it
\* ------------------------------------------------------------------------
\* What a location holds.  The content of a file is the sequence of its
\* characters, as they are stored.
Directory == [kind |-> "dir", content |-> <<>>, target |-> <<>>]

File(content) == [kind |-> "file", content |-> content, target |-> <<>>]

Symlink(target) == [kind |-> "link", content |-> <<>>, target |-> target]

\* The workspace root of `Workspace`, as a sequence of names.
WorkspaceRoot == <<"workspaces", "PROJ-1">>

\* The working directory of the agent's process: Path.resolve() makes a
\* relative path absolute against it.
Cwd == <<"srv", "ngn">>

\* The machine before the first tool call: the cloned repository in the
\* workspace, with a symbolic link that leaves it and one whose target does
\* not exist; the workspace of another ticket beside it; system files; and a
\* link into the workspace from outside.
InitialFS ==
  LET dirs == {<<>>, <<"etc">>, <<"tmp">>, <<"srv">>, Cwd, <<"workspaces">>,
               WorkspaceRoot, WorkspaceRoot \o <<"src">>,
               <<"workspaces", "PROJ-10">>}
      files == {<<WorkspaceRoot \o <<"src", "a.py">>, <<"p", "a", "s", "s">> >>,
                <<<<"workspaces", "PROJ-10", "secret">>, <<"t", "o", "k", "e", "n">> >>,
                <<<<"etc", "passwd">>, <<"r", "o", "o", "t", ":", "x">> >>}
      links == {<<WorkspaceRoot \o <<"out">>, <<"etc">> >>,
                <<WorkspaceRoot \o <<"build">>, <<"opt", "build">> >>,
                <<<<"tmp", "in">>, WorkspaceRoot \o <<"src">> >>}
      named(pairs) == {pair[1] : pair \in pairs}
      at(pairs, loc) == (CHOOSE pair \in pairs : pair[1] = loc)[2]
  IN [loc \in dirs \cup named(files) \cup named(links) |->
        IF loc \in dirs THEN Directory
        ELSE IF loc \in named(files) THEN File(at(files, loc))
        ELSE Symlink(at(links, loc))]

Exists(f, loc) == loc \in DOMAIN f

IsDir(f, loc) == Exists(f, loc) /\ f[loc].kind = "dir"

IsFile(f, loc) == Exists(f, loc) /\ f[loc].kind = "file"

IsLink(f, loc) == Exists(f, loc) /\ f[loc].kind = "link"

Parent(loc) == IF loc = <<>> THEN <<>> ELSE SubSeq(loc, 1, Len(loc) - 1)

\* The proper ancestors of a location, the root included.
Ancestors(loc) == {SubSeq(loc, 1, n) : n \in 0..(Len(loc) - 1)}

\* A path as the model sends it: absolute or relative, and its names.
AbsPath(parts) == [absolute |-> TRUE, parts |-> parts]

RelPath(parts) == [absolute |-> FALSE, parts |-> parts]

RECURSIVE JoinNames(_)
JoinNames(parts) ==
  IF parts = <<>> THEN ""
  ELSE IF Len(parts) = 1 THEN parts[1]
  ELSE parts[1] \o "/" \o JoinNames(Tail(parts))

\* The text of a path.
PathStr(path) == (IF path.absolute THEN "/" ELSE "") \o JoinNames(path.parts)

\* posixpath.realpath, which Path.resolve() calls: walk the names from the
\* location reached so far; "." stays, ".." goes up, a symbolic link is
\* replaced by its (absolute) target, a name that does not exist is kept.
\* links bounds the links followed: more than there are locations is a loop.
RECURSIVE _joinrealpath(_, _, _, _)
_joinrealpath(f, loc, rest, links) ==
  IF rest = <<>> THEN loc
  ELSE LET name == Head(rest)
           here == Append(loc, name)
       IN IF name = "." THEN _joinrealpath(f, loc, Tail(rest), links)
          ELSE IF name = ".." THEN _joinrealpath(f, Parent(loc), Tail(rest), links)
          ELSE IF IsLink(f, here) /\ links > 0
          THEN _joinrealpath(f, <<>>, f[here].target \o Tail(rest), links - 1)
          ELSE _joinrealpath(f, here, Tail(rest), links)

\* Path(path).resolve()
resolve(f, path) ==
  _joinrealpath(f, <<>>, (IF path.absolute THEN <<>> ELSE Cwd) \o path.parts,
                Cardinality(DOMAIN f))

\* PurePath.is_relative_to: root is a prefix of loc, name by name.
is_relative_to_Parent(loc, root) ==
  /\ Len(loc) >= Len(root) - 1
  /\ SubSeq(loc, 1, Len(root) - 1) = SubSeq(root, 1, Len(root) - 1)

is_relative_to(loc, root) ==
  /\ Len(loc) >= Len(root)
  /\ SubSeq(loc, 1, Len(root)) = root

\* One file system operation, as the tools log it.
IO(op, loc) == [op |-> op, at |-> loc]

\* What a tool function hands back: the string, the operations performed on
\* the file system, and the file system after them.
Returned(value, io, f) == [value |-> value, io |-> io, fs |-> f]

\* os.linesep of the machine the agent runs on.
linesep == <<"\n">>

\* Path.write_text(content): the characters stored; text mode writes the
\* line separator of the machine for every "\n" and nothing else is changed.
RECURSIVE write_text(_)
write_text(content) ==
  IF content = <<>> THEN <<>>
  ELSE (IF Head(content) = "\n" THEN linesep ELSE <<Head(content)>>)
         \o write_text(Tail(content))

\* Path.read_text(): the characters stored, read in text mode with universal
\* newlines: "\r\n" and a lone "\r" are read as "\n".
RECURSIVE read_text(_)
read_text(stored) ==
  IF stored = <<>> THEN <<>>
  ELSE IF Head(stored) = "\r"
  THEN <<"\n">> \o read_text(IF Len(stored) > 1 /\ stored[2] = "\n"
                             THEN Tail(Tail(stored)) ELSE Tail(stored))
  ELSE <<Head(stored)>> \o read_text(Tail(stored))

\* The text of a sequence of characters.
RECURSIVE Text(_)
Text(chars) == IF chars = <<>> THEN "" ELSE Head(chars) \o Text(Tail(chars))

\* coder.py:292-318
_read_file(f, path, workspace) ==
  LET resolved == resolve(f, path)
  IN IF ~is_relative_to(resolved, resolve(f, workspace))
     THEN Returned("Error: path '" \o PathStr(path)
                     \o "' is outside the workspace and cannot be accessed", <<>>, f)
     ELSE IF IsFile(f, resolved)
     THEN Returned(Text(read_text(f[resolved].content)), <<IO("read_text", resolved)>>, f)
     ELSE \* read_text raises, line 317 catches
          Returned("Error reading " \o PathStr(path) \o ": "
                     \o (IF IsDir(f, resolved) THEN "[Errno 21] Is a directory"
                         ELSE "[Errno 2] No such file or directory"),
                   <<IO("read_text", resolved)>>, f)

\* Path.mkdir(parents=True, exist_ok=True) on loc: the missing ancestors and
\* loc become directories; the call raises, changing nothing, when loc or an
\* ancestor is there and is no directory.
MkdirRaises(f, loc) ==
  \E a \in Ancestors(loc) \cup {loc} : Exists(f, a) /\ ~IsDir(f, a)

Mkdir(f, loc) ==
  LET made == {a \in Ancestors(loc) \cup {loc} : ~Exists(f, a)}
  IN [a \in DOMAIN f \cup made |-> IF a \in made THEN Directory ELSE f[a]]

\* Path.write_text on loc, whose parent is a directory.
WriteText(f, loc, content) ==
  [a \in DOMAIN f \cup {loc} |-> IF a = loc THEN File(write_text(content)) ELSE f[a]]

\* coder.py:321-348
_write_file(f, path, content, workspace) ==
  LET resolved == resolve(f, path)
      parent == Parent(resolved)
      made == Mkdir(f, parent)
  IN IF ~is_relative_to(resolved, resolve(f, workspace))
     THEN Returned("Error: path '" \o PathStr(path)
                     \o "' is outside the workspace and cannot be written", <<>>, f)
     ELSE IF MkdirRaises(f, parent)
     THEN \* mkdir raises, line 347 catches
          Returned("Error writing " \o PathStr(path) \o ": [Errno 20] Not a directory",
                   <<IO("mkdir", parent)>>, f)
     ELSE IF IsDir(made, resolved)
     THEN \* write_text raises, line 347 catches
          Returned("Error writing " \o PathStr(path) \o ": [Errno 21] Is a directory",
                   <<IO("mkdir", parent), IO("write_text", resolved)>>, made)
     ELSE Returned("Wrote " \o ToString(Len(content)) \o " bytes to " \o PathStr(path),
                   <<IO("mkdir", parent), IO("write_text", resolved)>>,
                   WriteText(made, resolved, content))

\* The characters of the names that directories hold.
Spelling(name) ==
  CASE name = "src" -> <<"s", "r", "c">>
    [] name = "out" -> <<"o", "u", "t">>
    [] name = "build" -> <<"b", "u", "i", "l", "d">>
    [] name = "pkg" -> <<"p", "k", "g">>
    [] name = "a.py" -> <<"a", ".", "p", "y">>
    [] name = "b.py" -> <<"b", ".", "p", "y">>
    [] name = "passwd" -> <<"p", "a", "s", "s", "w", "d">>
    [] name = "secret" -> <<"s", "e", "c", "r", "e", "t">>
    [] name = "PROJ-1" -> <<"P", "R", "O", "J", "-", "1">>
    [] name = "PROJ-10" -> <<"P", "R", "O", "J", "-", "1", "0">>

\* Path.is_dir() and Path.is_file() of an entry: both follow symbolic links,
\* and both are False for a link whose target does not exist.
is_dir(f, loc) == IsDir(f, resolve(f, AbsPath(loc)))

is_file(f, loc) == IsFile(f, resolve(f, AbsPath(loc)))

\* coder.py:361: the key (e.is_file(), e.name) of one entry is less than
\* that of another; False is less than True.
EntryLess(f, a, b) ==
  \/ ~is_file(f, a) /\ is_file(f, b)
  \/ /\ is_file(f, a) = is_file(f, b)
     /\ StrLess(Spelling(a[Len(a)]), Spelling(b[Len(b)]))

\* sorted(..., key=...) of a set of entries, whose names differ.
RECURSIVE sorted(_, _)
sorted(f, entries) ==
  IF entries = {} THEN <<>>
  ELSE LET least == CHOOSE e \in entries :
                      \A o \in entries \ {e} : EntryLess(f, e, o)
       IN <<least>> \o sorted(f, entries \ {least})

\* Path(path).iterdir(): what the directory holds.
iterdir(f, dir) == {loc \in DOMAIN f : loc # <<>> /\ Parent(loc) = dir}

\* coder.py:362: the line of an entry, as its prefix and its name.
EntryLine(f, loc) ==
  [prefix |-> IF is_dir(f, loc) THEN "d" ELSE "f", name |-> loc[Len(loc)]]

RECURSIVE JoinLines(_)
JoinLines(lines) ==
  IF lines = <<>> THEN ""
  ELSE lines[1].prefix \o "  " \o lines[1].name
         \o (IF Len(lines) = 1 THEN "" ELSE "\n" \o JoinLines(Tail(lines)))

\* coder.py:351-365.  [value |-> the string returned, lines |-> the lines it
\* is made of].
_list_directory(f, path) ==
  LET dir == resolve(f, path)
      entries == sorted(f, iterdir(f, dir))
      lines == [i \in 1..Len(entries) |-> EntryLine(f, entries[i])]
  IN IF ~IsDir(f, dir)
     THEN \* iterdir raises, line 364 catches
          [value |-> "Error listing " \o PathStr(path) \o ": "
                       \o (IF Exists(f, dir) THEN "[Errno 20] Not a directory"
                           ELSE "[Errno 2] No such file or directory"),
           lines |-> <<>>]
     ELSE [value |-> IF lines = <<>> THEN "(empty)" ELSE JoinLines(lines),
           lines |-> lines]

FilesInit ==
  /\ fs = InitialFS
  /\ tool_calls = 0
  /\ last_call = <<>>

\* ------------------------------------------------------------------------
\* The shell tool
\* ------------------------------------------------------------------------
\* coder.py:21-27
_CREDENTIAL_ENV_VARS ==
  {"ANTHROPIC_API_KEY", "JIRA_API_TOKEN", "JIRA_EMAIL", "JIRA_BASE_URL",
   "JIRA_FILTER_ID"}

\* coder.py:386: the copy of the environment without the credential names.
sanitized_env_OnlyProviderKey(env) ==
  [k \in DOMAIN env \ {"ANTHROPIC_API_KEY"} |-> env[k]]

sanitized_env(env) == [k \in DOMAIN env \ _CREDENTIAL_ENV_VARS |-> env[k]]

\* Text is a sequence of pieces, each one white-space character or a run of
\* other characters; str.strip() drops the white space at both ends.
Whitespace == {" ", "\n", "\t"}

RECURSIVE lstrip(_)
lstrip(text) ==
  IF text # <<>> /\ Head(text) \in Whitespace THEN lstrip(Tail(text)) ELSE text

RECURSIVE rstrip(_)
rstrip(text) ==
  IF text # <<>> /\ text[Len(text)] \in Whitespace
  THEN rstrip(SubSeq(text, 1, Len(text) - 1)) ELSE text

strip(text) == rstrip(lstrip(text))

RECURSIVE Str(_)
Str(text) == IF text = <<>> THEN "" ELSE Head(text) \o Str(Tail(text))

\* How subprocess.run can end: the command exits, it is killed after the
\* timeout, or it cannot be started.
Exited(stdout, stderr, returncode) ==
  [kind |-> "exit", stdout |-> stdout, stderr |-> stderr, returncode |-> returncode]

TimedOut == [kind |-> "timeout", stdout |-> <<>>, stderr |-> <<>>, returncode |-> 0]

NotStarted == [kind |-> "oserror", stdout |-> <<>>, stderr |-> <<>>, returncode |-> 0]

\* coder.py:399-400: the line that tells a return code other than zero.
ExitMarker(returncode) == "[exit code " \o ToString(returncode) \o "]"

\* coder.py:397-405: the string _run_command returns.
CommandOutput_NoMarker(ended) ==
  IF ended.kind = "timeout" THEN "Error: command timed out after 120 seconds"
  ELSE IF ended.kind = "oserror"
  THEN "Error running command: [Errno 2] No such file or directory"
  ELSE LET output == ended.stdout \o ended.stderr
       IN IF strip(output) = <<>> THEN "[no output]" ELSE Str(strip(output))

CommandOutput(ended) ==
  IF ended.kind = "timeout" THEN "Error: command timed out after 120 seconds"
  ELSE IF ended.kind = "oserror"
  THEN "Error running command: [Errno 2] No such file or directory"
  ELSE LET output == ended.stdout \o ended.stderr
           whole == IF ended.returncode # 0
                    THEN output \o <<"\n", ExitMarker(ended.returncode)>>
                    ELSE output
       IN IF strip(whole) = <<>> THEN "[no output]" ELSE Str(strip(whole))

\* coder.py:288: inputs.get("cwd") or str(workspace); cwd is <<>> when the
\* field is absent, else <<the string>>.
CommandCwd(cwd, workspace) == IF cwd = <<>> \/ cwd = <<"">> THEN workspace ELSE cwd[1]

ShellInit ==
  /\ shell_pc = "exec"
  /\ environ = EmptyInput
  /\ shell_calls = 0
  /\ last_run = <<>>

\* ------------------------------------------------------------------------
\* git.py, clone_repo
\* ------------------------------------------------------------------------
\* A URL is the sequence of its characters.
\* git.py:8
_ALLOWED_URL_PREFIXES_WithFile ==
  {<<"h", "t", "t", "p", "s", ":", "/", "/">>, <<"g", "i", "t", "@">>,
   <<"f", "i", "l", "e", ":", "/", "/">>}

_ALLOWED_URL_PREFIXES ==
  {<<"h", "t", "t", "p", "s", ":", "/", "/">>, <<"g", "i", "t", "@">>}

\* str.startswith
startswith(string, prefix) ==
  /\ Len(string) >= Len(prefix)
  /\ SubSeq(string, 1, Len(prefix)) = prefix

\* Mutant of Rmtree: nothing is removed.
Rmtree_Keep(f, dest) == f

\* shutil.rmtree(dest): dest and all below it are gone.
Rmtree(f, dest) ==
  [loc \in {l \in DOMAIN f : ~is_relative_to(l, dest)} |-> f[loc]]

\* What a successful git clone leaves at dest.
Cloned(f, dest) ==
  LET repo == {dest, dest \o <<".git">>}
      readme == dest \o <<"README.md">>
  IN [loc \in DOMAIN f \cup repo \cup {readme} |->
        IF loc \in repo THEN Directory
        ELSE IF loc = readme THEN File(<<"#", " ", "r", "e", "p", "o">>)
        ELSE f[loc]]

\* git.py:11-45: clone_repo on the file system f, git ending with returncode
\* (<<>>: subprocess.run raises, git cannot be started).  Gives the
\* exception raised (None: none), the file system afterwards, and the
\* argument lists of the subprocess.run calls made.
clone_repo(f, repo_url, dest, returncode) ==
  LET removed == IF Exists(f, dest) THEN Rmtree(f, dest) ELSE f
      made == Mkdir(removed, Parent(dest))
      argv == <<"git", "clone", Str(repo_url), PathStr(AbsPath(dest))>>
  IN IF ~\E prefix \in _ALLOWED_URL_PREFIXES : startswith(repo_url, prefix)
     THEN \* lines 31-34
          [raised |-> "ValueError", disk |-> f, runs |-> <<>>]
     ELSE IF returncode = <<>>
     THEN [raised |-> "FileNotFoundError", disk |-> made, runs |-> <<argv>>]
     ELSE IF returncode[1] # 0
     THEN \* lines 44-45
          [raised |-> "RuntimeError", disk |-> made, runs |-> <<argv>>]
     ELSE [raised |-> None, disk |-> Cloned(made, dest), runs |-> <<argv>>]

\* "refs/heads/"
RefsHeads == <<"r", "e", "f", "s", "/", "h", "e", "a", "d", "s", "/">>

\* How subprocess.run ends: it returns with what git wrote and git's exit
\* code, or it raises.
Completed(stdout, returncode) ==
  [raises |-> None, stdout |-> stdout, returncode |-> returncode]

Raises(name) == [raises |-> name, stdout |-> <<>>, returncode |-> 0]

\* Mutant of find_resume_branch: True whenever git could be run.
find_resume_branch_AnyOutput(repo_url, branch, run) ==
  [argv |-> <<"git", "ls-remote", "--heads", Str(repo_url), Str(RefsHeads \o branch)>>,
   value |-> <<run.raises = None>>,
   raised |-> None]

\* git.py:62-73: find_resume_branch, subprocess.run ending as run.  Gives
\* the argument list of the subprocess, the value returned (<<>>: none) and
\* the exception that leaves the function (None: none).
find_resume_branch(repo_url, branch, run) ==
  [argv |-> <<"git", "ls-remote", "--heads", Str(repo_url), Str(RefsHeads \o branch)>>,
   value |-> IF run.raises # None
             THEN \* lines 70-73
                  <<FALSE>>
             ELSE <<strip(run.stdout) # <<>> >>,
   raised |-> None]

\* The machine before the first clone: no workspace directory yet.
FreshDisk ==
  [loc \in {<<>>, <<"etc">>, <<"srv">>, Cwd} |-> Directory]

CloneInit ==
  /\ disk = FreshDisk
  /\ git_runs = <<>>
  /\ clone_calls = 0
  /\ last_clone = <<>>
  /\ last_query = <<>>

\* ------------------------------------------------------------------------
\* main.py and jira.py, pure parts
\* ------------------------------------------------------------------------
\* Issue keys are sequences of characters, as URLs are.
Upper ==
  {"A", "B", "C", "D", "E", "F", "G", "H", "I", "J", "K", "L", "M", "N", "O",
   "P", "Q", "R", "S", "T", "U", "V", "W", "X", "Y", "Z"}

\* The decimal digits of ASCII (\d takes those of other scripts as well).
Digits == {"0", "1", "2", "3", "4", "5", "6", "7", "8", "9"}

\* [A-Z]+-\d+ over the whole of key.
LettersHyphenDigits(key) ==
  \E h \in 2..(Len(key) - 1) :
    /\ key[h] = "-"
    /\ \A i \in 1..(h - 1) : key[i] \in Upper
    /\ \A i \in (h + 1)..Len(key) : key[i] \in Digits

\* main.py:27, 229: _TICKET_KEY_RE.match(key) for ^[A-Z]+-\d+$; the $ of re
\* matches at the end of the string and also just before a newline that ends
\* the string.
_TICKET_KEY_RE_match(key) ==
  \/ LettersHyphenDigits(key)
  \/ /\ key # <<>>
     /\ key[Len(key)] = "\n"
     /\ LettersHyphenDigits(SubSeq(key, 1, Len(key) - 1))

\* The names of a path given as characters: what lies between the slashes.
RECURSIVE PathNames(_, _)
PathNames(chars, name) ==
  IF chars = <<>> THEN (IF name = "" THEN <<>> ELSE <<name>>)
  ELSE IF Head(chars) = "/"
  THEN (IF name = "" THEN <<>> ELSE <<name>>) \o PathNames(Tail(chars), "")
  ELSE PathNames(Tail(chars), name \o Head(chars))

\* The value of WORKSPACE_DIR in the environment of the agent's process.
WORKSPACE_DIR == AbsPath(<<"workspaces">>)

\* main.py:266: (Path(WORKSPACE_DIR) / key).resolve(); a key that begins with
\* a slash replaces the directory.
WorkspaceOf(f, key) ==
  resolve(f, IF key # <<>> /\ key[1] = "/"
             THEN AbsPath(PathNames(key, ""))
             ELSE [WORKSPACE_DIR EXCEPT !.parts = @ \o PathNames(key, "")])

\* The issues of the tracker: key, reporter (<<>>: none) and parent (<<>>:
\* none).  The first four are Tasks that the filter can return; the last is
\* an Epic.
Issue(key, reporter, parent) == [key |-> key, reporter |-> reporter, parent |-> parent]

Ann == [account_id |-> "abc123", display_name |-> "Ann"]

Issues ==
  {Issue(<<"P", "R", "O", "J", "-", "1">>, <<Ann>>, <<<<"P", "R", "O", "J", "-", "9">>>>),
   Issue(<<"P", "R", "O", "J", "-", "2">>, <<>>, <<>>),
   Issue(<<".", ".", "/", "x">>, <<Ann>>, <<>>),
   Issue(<<"P", "R", "O", "J", "-", "3", "\n">>, <<>>, <<>>),
   Issue(<<"P", "R", "O", "J", "-", "9">>, <<Ann>>, <<>>)}

Keys == {issue.key : issue \in Issues}

Candidates == Keys \ {<<"P", "R", "O", "J", "-", "9">>}

\* jira.get_ticket(key), when the tracker answers.
get_ticket(key) == CHOOSE issue \in Issues : issue.key = key

\* main.py:232-233, 258-259, 278-279, 330-331, 342-343
Mention(issue) ==
  IF issue.reporter # <<>>
  THEN <<issue.reporter[1].account_id, issue.reporter[1].display_name>>
  ELSE <<>>

\* jira.py:41-62, 64-71, 73-80: what the tracker holds after a call it has
\* accepted.
Transitioned(tr, key, status_name) == [tr EXCEPT ![key].status = status_name]

Commented(tr, key, lines, mention) ==
  [tr EXCEPT ![key].comments = Append(@, [lines |-> lines, mention |-> mention])]

Labelled(tr, key, label) == [tr EXCEPT ![key].labels = @ \cup {label}]

\* main.py:19
_API_UNAVAILABLE ==
  "Anthropic API was unavailable for an extended period - please retry later."

\* The comments of main.py:236-239, 261, 280-283, 332-335, 344-347.
BadKeyLines(key) ==
  <<"This ticket has been blocked by Agent ngn.",
    "The ticket key '" \o Str(key) \o "' is not a valid Jira key (expected format: PROJECT-123).">>

UnavailableLines == <<_API_UNAVAILABLE>>

CloneFailedLines(error) ==
  <<"This ticket has been blocked by Agent ngn.",
    "The repository could not be cloned: " \o error>>

ImplBlockedLines(reason) ==
  <<"Implementation was blocked by Agent ngn.", "Reason: " \o reason>>

\* The bullet of main.py:347 is written as an asterisk.
RECURSIVE Bullets(_)
Bullets(missing) ==
  IF missing = <<>> THEN <<>>
  ELSE <<"* " \o Head(missing)>> \o Bullets(Tail(missing))

MissingLines(missing) ==
  <<"This ticket has been blocked by Agent ngn.",
    "The following required information was not found:">> \o Bullets(missing)

\* The exceptions main catches (main.py:92).
HttpxErrors == {"httpx.ConnectError", "httpx.HTTPStatusError"}

\* One call of poll_once, as the trace keeps it: the function, the issue key
\* (<<>>: none), its further argument, and the exception it raised or None.
Call(name, key, arg, raises) == [call |-> name, key |-> key, arg |-> arg, raises |-> raises]

PollInit ==
  /\ main_pc = "loop"
  /\ polls = 0
  /\ tracker = [key \in Keys |-> [status |-> "READY", labels |-> {}, comments |-> <<>>]]
  /\ tickets = <<>>
  /\ top = <<>>
  /\ ticket = <<>>
  /\ ancestors = <<>>
  /\ validation = <<>>
  /\ workspace_dir = <<>>
  /\ resume_branch = <<>>
  /\ existing_pr_url = <<>>
  /\ impl = <<>>
  /\ pending = <<>>
  /\ trace = <<>>
  /\ escaped = None
  /\ pause = <<>>

\* ------------------------------------------------------------------------
\* jira.py: the order of the candidates
\* ------------------------------------------------------------------------
\* jira.py:5
_PRIORITY_ORDER ==
  [name \in {"Highest", "High", "Medium", "Low", "Lowest"} |->
     CASE name = "Highest" -> 0 [] name = "High" -> 1 [] name = "Medium" -> 2
       [] name = "Low" -> 3 [] name = "Lowest" -> 4]

\* jira.py:380-383: the key is (type_rank, priority_rank, created); a
\* priority that _PRIORITY_ORDER does not name, None included, ranks as 2.
_sort_key(tk) ==
  <<IF tk.issue_type = "Bug" THEN 0 ELSE 1,
    IF tk.priority \in DOMAIN _PRIORITY_ORDER THEN _PRIORITY_ORDER[tk.priority] ELSE 2,
    tk.created>>

\* a < b for two keys, as Python compares tuples.
KeyLess(a, b) ==
  \/ a[1] < b[1]
  \/ a[1] = b[1] /\ a[2] < b[2]
  \/ a[1] = b[1] /\ a[2] = b[2] /\ StrLess(a[3], b[3])

\* list.sort(key=_sort_key) is stable: an element goes in after those
\* already placed whose key is not greater than its own.
RECURSIVE Insert(_, _)
Insert(tk, placed) ==
  IF placed = <<>> THEN <<tk>>
  ELSE IF KeyLess(_sort_key(tk), _sort_key(Head(placed)))
  THEN <<tk>> \o placed
  ELSE <<Head(placed)>> \o Insert(tk, Tail(placed))

RECURSIVE sort(_, _)
sort(list, placed) ==
  IF list = <<>> THEN placed ELSE sort(Tail(list), Insert(Head(list), placed))

\* jira.py:367-377: the fields of an issue that the order looks at.
_extract_ticket(issue) ==
  [key |-> issue.key, issue_type |-> issue.issuetype,
   priority |-> issue.priority, created |-> issue.created]

\* jira.py:94-96
get_tickets_from_filter(issues) ==
  sort([i \in 1..Len(issues) |-> _extract_ticket(issues[i])], <<>>)

\* str.lower() of the status names in use.
lower(name) ==
  CASE name \in {"BLOCKED", "Blocked", "blocked"} -> "blocked"
    [] name \in {"IN PROGRESS", "In Progress"} -> "in progress"
    [] name \in {"IN REVIEW", "In Review"} -> "in review"
    [] name \in {"READY", "Ready"} -> "ready"
    [] name \in {"DONE", "Done"} -> "done"
    [] OTHER -> name

\* How a request ends: with a response of some status code, or with an
\* httpx.RequestError (no response).
Responds(status_code) == <<status_code>>

NoResponse == <<>>

\* response.raise_for_status(), for a request that got a response.
raise_for_status(reply) == IF reply[1] >= 400 THEN "HTTPStatusError" ELSE None

\* Mutant of FirstMatch: the names are compared as they are.
FirstMatch_SameCase(transitions, status_name) ==
  LET hits == SelectSeq(transitions, LAMBDA t : t.name = status_name)
  IN IF hits = <<>> THEN <<>> ELSE <<hits[1]>>

\* jira.py:49-52: the first transition whose name is status_name, the case
\* of letters apart; <<>> is None.
FirstMatch(transitions, status_name) ==
  LET hits == SelectSeq(transitions, LAMBDA t : lower(t.name) = lower(status_name))
  IN IF hits = <<>> THEN <<>> ELSE <<hits[1]>>

\* jira.py:41-62: transition_ticket for the issue key, the tracker offering
\* transitions and its two requests ending as got and posted.  Gives the
\* requests sent and the exception raised (None: none).
transition_ticket(key, status_name, transitions, got, posted) ==
  LET path == "/rest/api/3/issue/" \o key \o "/transitions"
      get == [method |-> "GET", path |-> path, id |-> ""]
      hit == FirstMatch(transitions, status_name)
  IN IF got = NoResponse THEN [sent |-> <<get>>, raised |-> "ConnectError"]
     ELSE IF raise_for_status(got) # None
     THEN [sent |-> <<get>>, raised |-> raise_for_status(got)]
     ELSE IF hit = <<>>
     THEN \* lines 53-55
          [sent |-> <<get>>, raised |-> "ValueError"]
     ELSE LET post == [method |-> "POST", path |-> path, id |-> hit[1].id]
          IN IF posted = NoResponse
             THEN [sent |-> <<get, post>>, raised |-> "ConnectError"]
             ELSE [sent |-> <<get, post>>, raised |-> raise_for_status(posted)]

SortInit ==
  /\ last_search = <<>>
  /\ last_transition = <<>>

\* ------------------------------------------------------------------------
\* jira.py and main.py: the pre-flight checks
\* ------------------------------------------------------------------------
\* jira.py:8-14, and main.py:18 with the same names
_REQUIRED_ENV_VARS ==
  <<"ANTHROPIC_API_KEY", "JIRA_BASE_URL", "JIRA_EMAIL", "JIRA_API_TOKEN",
    "JIRA_FILTER_ID">>

\* sorted(_REQUIRED_ISSUE_TYPES), jira.py:17
_REQUIRED_ISSUE_TYPES == <<"Bug", "Story", "Task">>

\* sorted(_REQUIRED_STATUSES), jira.py:20
_REQUIRED_STATUSES == <<"BLOCKED", "IN PROGRESS", "IN REVIEW", "READY">>

\* str.upper() of the status names the tracker answers with.
upper(name) ==
  CASE name = "Ready" -> "READY"
    [] name = "In Progress" -> "IN PROGRESS"
    [] name = "In Review" -> "IN REVIEW"
    [] name = "Blocked" -> "BLOCKED"
    [] OTHER -> name

\* ", ".join(parts)
RECURSIVE join(_)
join(parts) ==
  IF parts = <<>> THEN ""
  ELSE IF Len(parts) = 1 THEN parts[1]
  ELSE parts[1] \o ", " \o join(Tail(parts))

\* One result of validate_setup.
CheckResult(name, passed, detail) == [name |-> name, passed |-> passed, detail |-> detail]

\* jira.py:291-303
_skipped_checks_None(names) == <<>>

_skipped_checks(names) ==
  [i \in 1..Len(names) |-> CheckResult(names[i], FALSE, "skipped")]

\* jira.py:131: the required names the environment lacks, in their order.
missing_vars(env) == SelectSeq(_REQUIRED_ENV_VARS, LAMBDA v : v \notin env)

\* jira.py:132-146: the first check.
EnvironmentCheck(env) ==
  IF missing_vars(env) # <<>>
  THEN <<CheckResult("Environment variables", FALSE, "missing: " \o join(missing_vars(env)))>>
         \o _skipped_checks(<<"JIRA authentication", "Filter accessible",
                              "Issue types", "Statuses">>)
  ELSE <<CheckResult("Environment variables", TRUE, "all required variables are set")>>

\* What the tracker does with a GET: it answers 200 with a body (of which
\* the model keeps the name it carries, <<>> when it carries none, and the
\* names it lists), it answers with an error status, or the request fails.
Answers(name, names) == [kind |-> "ok", status |-> 200, name |-> name, names |-> names]

AnswersStatus(status) == [kind |-> "status", status |-> status, name |-> <<>>, names |-> {}]

Fails == [kind |-> "error", status |-> 0, name |-> <<>>, names |-> {}]

\* str(exc) of the exceptions the checks catch with "except Exception".
ExceptionText(reply) ==
  IF reply.kind = "status" THEN "Client error '" \o ToString(reply.status) \o "'"
  ELSE "[Errno 111] Connection refused"

\* jira.py:156-184 and 191-214: the result of a check that reads one name
\* from the body.
NamedCheck(check, reply) ==
  IF reply.kind = "ok"
  THEN CheckResult(check, TRUE, IF reply.name = <<>> THEN "unknown" ELSE reply.name[1])
  ELSE IF reply.kind = "status"
  THEN CheckResult(check, FALSE, "HTTP " \o ToString(reply.status))
  ELSE CheckResult(check, FALSE, ExceptionText(reply))

\* jira.py:219-250
IssueTypesCheck(reply) ==
  IF reply.kind # "ok" THEN CheckResult("Issue types", FALSE, ExceptionText(reply))
  ELSE IF \E i \in 1..Len(_REQUIRED_ISSUE_TYPES) : _REQUIRED_ISSUE_TYPES[i] \notin reply.names
  THEN CheckResult("Issue types", FALSE,
         join([i \in 1..Len(_REQUIRED_ISSUE_TYPES) |->
                 _REQUIRED_ISSUE_TYPES[i]
                   \o (IF _REQUIRED_ISSUE_TYPES[i] \in reply.names
                       THEN " found" ELSE " not found")]))
  ELSE CheckResult("Issue types", TRUE, join(_REQUIRED_ISSUE_TYPES))

\* jira.py:255-286
StatusesCheck(reply) ==
  IF reply.kind # "ok" THEN CheckResult("Statuses", FALSE, ExceptionText(reply))
  ELSE LET found_names_upper == {upper(n) : n \in reply.names}
       IN CheckResult("Statuses",
            \A i \in 1..Len(_REQUIRED_STATUSES) : _REQUIRED_STATUSES[i] \in found_names_upper,
            join([i \in 1..Len(_REQUIRED_STATUSES) |->
                    _REQUIRED_STATUSES[i]
                      \o (IF _REQUIRED_STATUSES[i] \in found_names_upper
                          THEN " found" ELSE " not found")]))

\* main.py:119-144: the line printed for a result; the check mark and the
\* cross are written [ok] and [failed].
ReportLine(r) ==
  LET symbol == IF r.passed THEN "[ok]" ELSE "[failed]"
  IN IF r.name = "Environment variables" /\ r.passed THEN symbol \o " " \o r.name
     ELSE IF r.name \in {"JIRA authentication", "Filter accessible"} /\ r.passed
     THEN symbol \o " " \o r.name \o " (" \o r.detail \o ")"
     ELSE symbol \o " " \o r.name \o ": " \o r.detail

\* main.py:148-152; the warning sign is written [warning].
TransitionsWarning ==
  "[warning] Transitions: cannot be verified without a live ticket"
    \o " - confirm IN PROGRESS, IN REVIEW, and BLOCKED transitions"
    \o " exist in your project workflow manually"

\* main.py:154-155
ExitCode_Zero(list) == 0

ExitCode(list) == IF \A i \in 1..Len(list) : list[i].passed THEN 0 ELSE 1

SetupInit ==
  /\ cli_pc = "start"
  /\ cli_validate = FALSE
  /\ cli_env = {}
  /\ http_gets = <<>>
  /\ checks = <<>>
  /\ stdout_lines = <<>>
  /\ exit_code = <<>>

\* ------------------------------------------------------------------------
\* main.py, validator.py and coder.py: ancestors and prompts
\* ------------------------------------------------------------------------
\* The issue keys of the tracker in this part.
WalkKeys == {"PROJ-1", "PROJ-2", "PROJ-3", "PROJ-4"}

\* A tracker without parent references.
Flat == [key \in WalkKeys |-> <<>>]

\* jira.py:306-333: the ticket get_ticket returns for key, as far as the
\* prompts read it (no priority, no labels, no description, no comments).
FullTicket(h, key) ==
  [key |-> key,
   issue_type |-> IF h[key] = <<>> THEN "Epic" ELSE "Task",
   summary |-> "About " \o key,
   parent |-> IF h[key] = <<>> THEN <<>>
              ELSE <<[key |-> h[key][1], summary |-> "About " \o h[key][1]]>>]

\* coder.py:417: _untrusted
_untrusted(value) == "<untrusted-content>" \o value \o "</untrusted-content>"

\* validator.py:76-92: _format_ticket, as the lines it joins.
validator_format_ticket(tk) ==
  <<"Key: " \o tk.key, "Type: " \o tk.issue_type, "Summary: " \o tk.summary,
    "Priority: none">>
  \o (IF tk.parent # <<>>
      THEN <<"Parent: " \o tk.parent[1].key \o " - " \o tk.parent[1].summary>>
      ELSE <<>>)
  \o <<"", "Description:", "(none)">>

\* coder.py:486-520: _format_ticket, as the lines it joins.
coder_format_ticket(tk) ==
  <<"Key: " \o tk.key, "Type: " \o tk.issue_type,
    "Summary: " \o _untrusted(tk.summary), "Priority: none">>
  \o (IF tk.parent # <<>>
      THEN <<"Parent: " \o tk.parent[1].key \o " - " \o _untrusted(tk.parent[1].summary)>>
      ELSE <<>>)
  \o <<"", "Description:", _untrusted("(none)")>>

\* "\n\n---\n\n".join(sections), as lines.
RECURSIVE JoinSections(_)
JoinSections(sections) ==
  IF sections = <<>> THEN <<>>
  ELSE IF Len(sections) = 1 THEN sections[1]
  ELSE sections[1] \o <<"", "---", "">> \o JoinSections(Tail(sections))

\* "\n\n".join(parts), as lines.
RECURSIVE JoinParts(_)
JoinParts(paragraphs) ==
  IF paragraphs = <<>> THEN <<>>
  ELSE IF Len(paragraphs) = 1 THEN paragraphs[1]
  ELSE paragraphs[1] \o <<"">> \o JoinParts(Tail(paragraphs))

\* validator.py:48-51: the content validate_ticket sends, the list of
\* ancestors being <<>> when poll_once hands None.
ValidatorContent(tk, ancestor_tickets) ==
  IF ancestor_tickets = <<>> THEN validator_format_ticket(tk)
  ELSE <<"Ancestor ticket context (outermost to innermost):", "">>
         \o JoinSections([i \in 1..Len(ancestor_tickets) |->
                            validator_format_ticket(ancestor_tickets[i])])
         \o <<"", "---", "", "Ticket to validate:">>
         \o validator_format_ticket(tk)

\* Mutant of _build_prompt: the ticket first, then the ancestors from the
\* innermost to the outermost.
_build_prompt_Reversed(tk, workspace_path, ancestor_tickets, resume, pr) ==
  JoinParts(
    <<<<"Ticket to implement (implement THIS ticket only):">> \o coder_format_ticket(tk)>>
    \o (IF ancestor_tickets # <<>>
        THEN << <<"Background context (do NOT implement these - for reference only):", "">>
                 \o JoinSections([i \in 1..Len(ancestor_tickets) |->
                       coder_format_ticket(ancestor_tickets[Len(ancestor_tickets) + 1 - i])])
                 \o <<"", "---">> >>
        ELSE <<>>))

\* coder.py:455-484: _build_prompt, as the lines of the prompt.
_build_prompt(tk, workspace_path, ancestor_tickets, resume, pr) ==
  JoinParts(
    (IF ancestor_tickets # <<>>
     THEN << <<"Background context (do NOT implement these - for reference only):", "">>
              \o JoinSections([i \in 1..Len(ancestor_tickets) |->
                                 coder_format_ticket(ancestor_tickets[i])])
              \o <<"", "---">> >>
     ELSE <<>>)
    \o <<<<"Ticket to implement (implement THIS ticket only):">> \o coder_format_ticket(tk)>>
    \o << <<"Repository location: " \o workspace_path>> >>
    \o (IF resume # <<>>
        THEN << <<"Resuming prior attempt: Branch " \o resume[1]
                    \o " already exists and has been checked out.">> >>
        ELSE <<>>)
    \o (IF pr # <<>>
        THEN << <<"Open pull request: A pull request already exists at " \o pr[1]
                    \o ". Do not open a new PR.">> >>
        ELSE <<>>)
    \o << <<"Begin by exploring the repository structure, then implement the ticket.">> >>)

WalkInit ==
  /\ walk_pc = "start"
  /\ hierarchy = Flat
  /\ subject = "PROJ-1"
  /\ lineage = <<>>
  /\ fetches = <<>>
  /\ validator_prompt = <<>>
  /\ coder_prompt = <<>>

\* ------------------------------------------------------------------------
\* coder.py, pure parts
\* ------------------------------------------------------------------------
\* coder.py:408-414
_blocked(reason) == [success |-> FALSE, pr_url |-> None, blocked_reason |-> reason]

\* str(exc) of an APIStatusError: the detail the "API error" reason carries.
ExcText(code) == "Error code: " \o ToString(code)

\* Mutant of IsTransient: every 5xx status is retried.
IsTransient_All5xx(code) == code = 429 \/ (code >= 500 /\ code <= 599)

\* coder.py:256: the statuses _call_with_retry retries.
IsTransient(code) == code \in {429, 500, 529}

\* Mutant of MoreTurns: one turn too many.
MoreTurns_OffByOne(t) == t <= _MAX_TURNS

\* coder.py:185: for turn in range(_MAX_TURNS)
MoreTurns(t) == t < _MAX_TURNS

\* coder.py:246: for attempt in range(_MAX_RETRIES)
MoreAttempts(a) == a < _MAX_RETRIES

\* Mutant of ShouldSleep: it sleeps after the last attempt too.
ShouldSleep_Always(a) == TRUE

\* coder.py:259: whether _call_with_retry sleeps after the failed attempt a.
ShouldSleep(a) == a < _MAX_RETRIES - 1

\* coder.py:70-150: the "required" fields of each tool's input schema.
Required(name) ==
  IF name \in {"read_file", "list_directory"} THEN {"path"}
  ELSE IF name = "write_file" THEN {"path", "content"}
  ELSE IF name = "run_command" THEN {"command"}
  ELSE IF name = "submit_work" THEN {"pr_url", "summary"}
  ELSE IF name = "report_blocked" THEN {"reason"}
  ELSE {}

\* Mutant of StatusErrorOutcome: 500 is reported as unavailable too.
StatusErrorOutcome_500Unavailable(code) ==
  IF code \in {429, 500, 529}
  THEN _blocked("API unavailable after retries (rate limited or overloaded) - try again later")
  ELSE _blocked("API error: " \o ExcText(code))

\* coder.py:189-192: the except clause of implement_ticket.
StatusErrorOutcome(code) ==
  IF code \in {429, 529}
  THEN _blocked("API unavailable after retries (rate limited or overloaded) - try again later")
  ELSE _blocked("API error: " \o ExcText(code))

\* Mutant of TokenLimitReached: a count equal to the limit passes.
TokenLimitReached_Strict(resp) == resp.usage.input_tokens > _TOKEN_LIMIT

\* coder.py:195
TokenLimitReached(resp) == resp.usage.input_tokens >= _TOKEN_LIMIT

\* Mutant of SubmittedOutcome: the reference is read under the wrong key.
SubmittedOutcome_WrongKey(block) ==
  [success |-> TRUE, pr_url |-> Get(block.input, "url", None), blocked_reason |-> None]

\* coder.py:207: what implement_ticket returns for a submit_work block.
SubmittedOutcome(block) ==
  [success |-> TRUE, pr_url |-> Get(block.input, "pr_url", None), blocked_reason |-> None]

\* Mutant of ReportedOutcome: no placeholder for a missing reason.
ReportedOutcome_NoDefault(block) == _blocked(Get(block.input, "reason", None))

\* coder.py:210: what implement_ticket returns for a report_blocked block.
ReportedOutcome(block) == _blocked(Get(block.input, "reason", "No reason provided"))

\* Mutant of ScanBlocks: a report_blocked anywhere in the response wins over
\* a submit_work before it.
ScanBlocks_BlockedFirst(content, i) ==
  LET reported == {k \in i..Len(content) :
                     content[k].type = "tool_use" /\ content[k].name = "report_blocked"}
      submitted == {k \in i..Len(content) :
                      content[k].type = "tool_use" /\ content[k].name = "submit_work"}
  IN IF reported # {} THEN <<ReportedOutcome(content[CHOOSE k \in reported : TRUE])>>
     ELSE IF submitted # {} THEN <<SubmittedOutcome(content[CHOOSE k \in submitted : TRUE])>>
     ELSE <<>>

\* coder.py:202-210: the scan of the response for a terminal tool call, from
\* block i on.  <<>> when the scan falls through, else <<the dict returned>>.
RECURSIVE ScanBlocks(_, _)
ScanBlocks(content, i) ==
  IF i > Len(content) THEN <<>>
  ELSE LET block == content[i] IN
       IF block.type = "tool_use" /\ block.name = "submit_work"
       THEN <<SubmittedOutcome(block)>>
       ELSE IF block.type = "tool_use" /\ block.name = "report_blocked"
       THEN <<ReportedOutcome(block)>>
       ELSE ScanBlocks(content, i + 1)

\* coder.py:213
StoppedWithoutTool(resp) == resp.stop_reason = "end_turn"

\* The string one of _read_file, _write_file, _list_directory, _run_command
\* returns.  What it says depends on the file system and the shell; the loop
\* never looks into it.
ToolOutput(name) == "<output of " \o name \o ">"

\* coder.py:277-289.  [raises |-> the exception raised or None, value |-> the
\* string returned].  inputs[key] raises KeyError when the key is absent.
_dispatch(name, inputs, workspace) ==
  LET Returns(text) == [raises |-> None, value |-> text]
      KeyError == [raises |-> "KeyError", value |-> None]
  IN IF name = "read_file"
     THEN IF "path" \in DOMAIN inputs THEN Returns(ToolOutput(name)) ELSE KeyError
     ELSE IF name = "write_file"
     THEN IF {"path", "content"} \subseteq DOMAIN inputs
          THEN Returns(ToolOutput(name)) ELSE KeyError
     ELSE IF name = "list_directory"
     THEN IF "path" \in DOMAIN inputs THEN Returns(ToolOutput(name)) ELSE KeyError
     ELSE IF name = "run_command"
     THEN IF "command" \in DOMAIN inputs THEN Returns(ToolOutput(name)) ELSE KeyError
     ELSE Returns("Unknown tool: " \o name)

\* coder.py:221-225
ToolResult(block, text) ==
  [type |-> "tool_result", tool_use_id |-> block.id, content |-> text]

\* Mutant of DispatchBlocks: an invocation of an unknown tool gets no result.
RECURSIVE DispatchBlocks_SkipUnknown(_, _, _, _)
DispatchBlocks_SkipUnknown(content, i, tool_results, ids) ==
  IF i > Len(content)
  THEN [raises |-> None, tool_results |-> tool_results, ids |-> ids]
  ELSE LET block == content[i] IN
       IF block.type = "tool_use" /\ Required(block.name) # {}
       THEN LET r == _dispatch(block.name, block.input, Workspace) IN
            IF r.raises # None
            THEN [raises |-> r.raises, tool_results |-> tool_results,
                  ids |-> Append(ids, block.id)]
            ELSE DispatchBlocks_SkipUnknown(content, i + 1,
                   Append(tool_results, ToolResult(block, r.value)),
                   Append(ids, block.id))
       ELSE DispatchBlocks_SkipUnknown(content, i + 1, tool_results, ids)

\* coder.py:217-225: the dispatch loop from block i on, with the results and
\* the identifiers dispatched so far.  It stops at the first _dispatch that
\* raises.
RECURSIVE DispatchBlocks(_, _, _, _)
DispatchBlocks(content, i, tool_results, ids) ==
  IF i > Len(content)
  THEN [raises |-> None, tool_results |-> tool_results, ids |-> ids]
  ELSE LET block == content[i] IN
       IF block.type = "tool_use"
       THEN LET r == _dispatch(block.name, block.input, Workspace) IN
            IF r.raises # None
            THEN [raises |-> r.raises, tool_results |-> tool_results,
                  ids |-> Append(ids, block.id)]
            ELSE DispatchBlocks(content, i + 1,
                   Append(tool_results, ToolResult(block, r.value)),
                   Append(ids, block.id))
       ELSE DispatchBlocks(content, i + 1, tool_results, ids)

\* The history as the model keeps it once it has been sent: the code only
\* appends to the history and hands it to the provider, so of the messages a
\* provider call has been issued with only the roles are kept.
Elide(msgs) == [i \in 1..Len(msgs) |-> [role |-> msgs[i].role, content |-> <<>>]]

\* Mutant of InitialMessages: the prompt is split over two user messages.
InitialMessages_TwoMessages ==
  <<[role |-> "user", content |-> <<[type |-> "text", text |-> "Background context"]>>],
    [role |-> "user", content |-> <<[type |-> "text", text |-> "Ticket to implement"]>>]>>

\* coder.py:183: the seeded history; _build_prompt gives the text.
InitialMessages ==
  <<[role |-> "user", content |-> <<[type |-> "text", text |-> "Ticket to implement"]>>]>>

\* ------------------------------------------------------------------------
\* implement_ticket and _call_with_retry
\* ------------------------------------------------------------------------
Init ==
  /\ pc = "turn"
  /\ turn = 0
  /\ messages = InitialMessages
  /\ response = <<>>
  /\ attempt = 0
  /\ last_exc = <<>>
  /\ exc = <<>>
  /\ create_error = <<>>
  /\ slept = 0
  /\ creates = 0
  /\ calls = 0
  /\ nresponses = 0
  /\ dispatched = <<>>
  /\ result = <<>>
  /\ raised = None
  /\ RetryInit
  /\ FilesInit
  /\ ShellInit
  /\ CloneInit
  /\ PollInit
  /\ SortInit
  /\ SetupInit
  /\ WalkInit

\* coder.py:185-188 and 245-246: a turn begins and calls _call_with_retry
\* with the history.
BeginTurn ==
  /\ pc = "turn"
  /\ MoreTurns(turn)
  /\ pc' = "call"
  /\ calls' = calls + 1
  /\ attempt' = 0
  /\ last_exc' = <<>>
  /\ create_error' = <<>>
  /\ slept' = 0
  /\ creates' = 0
  /\ messages' = Elide(messages)
  /\ response' = <<>>
  /\ dispatched' = <<>>
  /\ UNCHANGED <<turn, exc, nresponses, result, raised>>
  /\ UNCHANGED beside_coder

\* coder.py:185, 229: the for loop is exhausted.
TurnsExhausted ==
  /\ pc = "turn"
  /\ ~MoreTurns(turn)
  /\ result' = <<_blocked("Exceeded maximum turn limit (" \o ToString(_MAX_TURNS) \o ")")>>
  /\ pc' = "done"
  /\ UNCHANGED <<turn, messages, response, attempt, last_exc, exc, create_error,
                 slept, creates, calls, nresponses, dispatched, raised>>
  /\ UNCHANGED beside_coder

\* coder.py:248-254: client.messages.create returns; _call_with_retry returns
\* the response as it is, and its frame is gone.
CreateReturns ==
  /\ pc = "call"
  /\ nresponses' = nresponses + 1
  /\ pc' = "returned"
  /\ attempt' = 0
  /\ last_exc' = <<>>
  /\ create_error' = <<>>
  /\ slept' = 0
  /\ creates' = 0
  /\ UNCHANGED <<turn, messages, response, exc, calls, dispatched, result, raised>>
  /\ UNCHANGED beside_coder

\* coder.py:248-262: client.messages.create raises an APIStatusError with
\* the given status.
CreateRaisesStatus(code) ==
  /\ pc = "call"
  /\ creates' = creates + 1
  /\ create_error' = <<code>>
  /\ IF ~IsTransient(code)
     THEN \* line 257: raise
          /\ exc' = <<code>>
          /\ pc' = "except"
          /\ UNCHANGED <<attempt, last_exc, slept>>
     ELSE \* lines 258-261: keep the error, sleep unless this was the last attempt
          /\ last_exc' = <<code>>
          /\ slept' = IF ShouldSleep(attempt) THEN slept + _RETRY_DELAY ELSE slept
          /\ IF MoreAttempts(attempt + 1)
             THEN \* the next attempt
                  /\ attempt' = attempt + 1
                  /\ UNCHANGED <<pc, exc>>
             ELSE \* line 262: the loop has ended, raise last_exc
                  /\ exc' = last_exc'
                  /\ pc' = "except"
                  /\ UNCHANGED attempt
  /\ UNCHANGED <<turn, messages, response, calls, nresponses, dispatched,
                 result, raised>>
  /\ UNCHANGED beside_coder

\* client.messages.create raises an error that is no APIStatusError (a
\* connection error): neither function catches it.
CreateRaisesOther ==
  /\ pc = "call"
  /\ creates' = creates + 1
  /\ create_error' = <<>>
  /\ raised' = "APIConnectionError"
  /\ pc' = "raised"
  /\ UNCHANGED <<turn, messages, response, attempt, last_exc, exc, slept, calls,
                 nresponses, dispatched, result>>
  /\ UNCHANGED beside_coder

\* coder.py:189-192: implement_ticket catches the APIStatusError.
HandleStatusError ==
  /\ pc = "except"
  /\ result' = <<StatusErrorOutcome(exc[1])>>
  /\ pc' = "done"
  /\ UNCHANGED <<turn, messages, response, attempt, last_exc, exc, create_error,
                 slept, creates, calls, nresponses, dispatched, raised>>
  /\ UNCHANGED beside_coder

\* coder.py:194-227: the rest of the turn, for the response resp.  The log
\* calls of lines 203-209 change nothing the model keeps.
ProcessResponse(resp) ==
  /\ pc = "returned"
  /\ response' = <<resp>>
  /\ LET appended == Append(messages, [role |-> "assistant", content |-> resp.content])
         terminal == ScanBlocks(resp.content, 1)
         d == DispatchBlocks(resp.content, 1, <<>>, <<>>)
     IN IF TokenLimitReached(resp)
        THEN /\ result' = <<_blocked("Context window limit reached - conversation history too long")>>
             /\ pc' = "done"
             /\ UNCHANGED <<messages, turn, dispatched, raised>>
        ELSE IF terminal # <<>>
        THEN /\ result' = terminal
             /\ pc' = "done"
             /\ messages' = appended
             /\ UNCHANGED <<turn, dispatched, raised>>
        ELSE IF StoppedWithoutTool(resp)
        THEN /\ result' = <<_blocked("Agent stopped without submitting or reporting blocked")>>
             /\ pc' = "done"
             /\ messages' = appended
             /\ UNCHANGED <<turn, dispatched, raised>>
        ELSE IF d.raises # None
        THEN /\ raised' = d.raises
             /\ pc' = "raised"
             /\ messages' = appended
             /\ dispatched' = d.ids
             /\ UNCHANGED <<turn, result>>
        ELSE /\ messages' = Append(appended, [role |-> "user", content |-> d.tool_results])
             /\ dispatched' = d.ids
             /\ turn' = turn + 1
             /\ pc' = "turn"
             /\ UNCHANGED <<result, raised>>
  /\ UNCHANGED <<attempt, last_exc, exc, create_error, slept, creates, calls,
                 nresponses>>
  /\ UNCHANGED beside_coder

Next ==
  \/ BeginTurn
  \/ TurnsExhausted
  \/ CreateReturns
  \/ \E code \in StatusCodes : CreateRaisesStatus(code)
  \/ CreateRaisesOther
  \/ HandleStatusError
  \/ pc = "returned" /\ \E resp \in Responses(turn) : ProcessResponse(resp)

Spec == Init /\ [][Next]_all_vars

\* ------------------------------------------------------------------------
\* The retry loops of validate_ticket and _call_with_retry, side by side
\* ------------------------------------------------------------------------
\* What client.messages.create can do: return a response (200) or raise an
\* APIStatusError with one of the statuses.
Outcomes == {200} \cup StatusCodes

\* validator.py:52-69: one pass of the for loop of validate_ticket, in which
\* client.messages.create ends with the given status.
validate_ticket_create(loop, status) ==
  LET made == [loop EXCEPT !.creates = @ + 1]
  IN IF status = 200
     THEN \* line 62: break
          [made EXCEPT !.end = "returned"]
     ELSE IF status \notin {429, 529}
     THEN \* lines 64-65: raise
          [made EXCEPT !.end = "raised", !.error = status]
     ELSE IF loop.attempt = validator_MAX_RETRIES - 1
     THEN \* lines 66-67: raise
          [made EXCEPT !.end = "raised", !.error = status]
     ELSE \* lines 68-69, 52: sleep, next pass
          [made EXCEPT !.slept = @ + validator_RETRY_DELAY, !.attempt = @ + 1]

\* coder.py:245-262: one pass of the for loop of _call_with_retry, in which
\* client.messages.create ends with the given status.
_call_with_retry_create(loop, status) ==
  LET made == [loop EXCEPT !.creates = @ + 1]
      after == [made EXCEPT !.slept = IF ShouldSleep(loop.attempt)
                                      THEN @ + _RETRY_DELAY ELSE @]
  IN IF status = 200
     THEN \* lines 248-254: return
          [made EXCEPT !.end = "returned"]
     ELSE IF ~IsTransient(status)
     THEN \* lines 256-257: raise
          [made EXCEPT !.end = "raised", !.error = status]
     ELSE IF MoreAttempts(loop.attempt + 1)
     THEN \* lines 258-261, 246: keep the error, sleep, next pass
          [after EXCEPT !.attempt = @ + 1]
     ELSE \* line 262: raise last_exc
          [after EXCEPT !.end = "raised", !.error = status]

\* client.messages.create ends with the given status.  The outcome reaches
\* each function that is still in its loop; a function that has returned or
\* raised calls the provider no more.
Create(status) ==
  /\ v_loop.end = "running" \/ c_loop.end = "running"
  /\ outcome' = <<status>>
  /\ v_loop' = IF v_loop.end = "running"
               THEN validate_ticket_create(v_loop, status) ELSE v_loop
  /\ c_loop' = IF c_loop.end = "running"
               THEN _call_with_retry_create(c_loop, status) ELSE c_loop
  /\ UNCHANGED beside_retry

RetryNext == \E status \in Outcomes : Create(status)

SpecRetry == Init /\ [][RetryNext]_all_vars

\* ------------------------------------------------------------------------
\* The file tools, called one after the other on one file system
\* ------------------------------------------------------------------------
\* Paths the model sends: inside the workspace (a file that exists, one under
\* a directory that does not), the workspace root itself, out of it through
\* ".." (to a file that exists, to one that does not), out of it through a
\* symbolic link, plainly outside, beside it under a name that begins like
\* the root's, outside but linked into it, and relative.
ToolPaths ==
  {AbsPath(WorkspaceRoot \o <<"src", "a.py">>),
   AbsPath(WorkspaceRoot \o <<"pkg", "b.py">>),
   AbsPath(WorkspaceRoot),
   AbsPath(WorkspaceRoot \o <<"..", "PROJ-10", "secret">>),
   AbsPath(WorkspaceRoot \o <<"src", "..", "..", "..", "etc", "cron">>),
   AbsPath(WorkspaceRoot \o <<"out", "passwd">>),
   AbsPath(WorkspaceRoot \o <<"out", "sub", "new">>),
   AbsPath(<<"etc", "passwd">>),
   AbsPath(<<"workspaces", "PROJ-10", "secret">>),
   AbsPath(<<"tmp", "in", "a.py">>),
   RelPath(<<"src", "a.py">>)}

\* Contents the model sends: nothing, a line, a line that ends in a line
\* break, and two lines with the line break of Windows between them.
Contents ==
  {<<>>, <<"x", " ", "=", " ", "1">>, <<"x", "\n">>, <<"a", "\r", "\n", "b">>}

\* coder.py:277-278 and 292-318: _dispatch calls _read_file.
ReadFile(path) ==
  /\ tool_calls < MaxToolCalls
  /\ LET r == _read_file(fs, path, AbsPath(WorkspaceRoot))
     IN /\ fs' = r.fs
        /\ last_call' = <<[name |-> "read_file", path |-> path, content |-> <<>>,
                           value |-> r.value, io |-> r.io, lines |-> <<>>]>>
  /\ tool_calls' = tool_calls + 1
  /\ UNCHANGED beside_files

\* coder.py:279-280 and 321-348: _dispatch calls _write_file.
WriteFile(path, content) ==
  /\ tool_calls < MaxToolCalls
  /\ LET r == _write_file(fs, path, content, AbsPath(WorkspaceRoot))
     IN /\ fs' = r.fs
        /\ last_call' = <<[name |-> "write_file", path |-> path, content |-> content,
                           value |-> r.value, io |-> r.io, lines |-> <<>>]>>
  /\ tool_calls' = tool_calls + 1
  /\ UNCHANGED beside_files

\* Directories the model asks for: the workspace root, a directory in it,
\* the link that leaves it, the directory that holds the workspaces, one
\* that holds nothing, a file, and a path that does not exist.
ListPaths ==
  {AbsPath(WorkspaceRoot),
   AbsPath(WorkspaceRoot \o <<"src">>),
   AbsPath(WorkspaceRoot \o <<"out">>),
   AbsPath(<<"workspaces">>),
   AbsPath(Cwd),
   AbsPath(WorkspaceRoot \o <<"src", "a.py">>),
   AbsPath(<<"nowhere">>)}

\* coder.py:281-282 and 351-365: _dispatch calls _list_directory.
ListDirectory(path) ==
  /\ tool_calls < MaxToolCalls
  /\ LET r == _list_directory(fs, path)
     IN last_call' = <<[name |-> "list_directory", path |-> path, content |-> <<>>,
                        value |-> r.value, io |-> <<IO("iterdir", resolve(fs, path))>>,
                        lines |-> r.lines]>>
  /\ tool_calls' = tool_calls + 1
  /\ UNCHANGED fs
  /\ UNCHANGED beside_files

FilesNext ==
  \/ \E path \in ToolPaths : ReadFile(path)
  \/ \E path \in ToolPaths, content \in Contents : WriteFile(path, content)
  \/ \E path \in ListPaths : ListDirectory(path)

SpecFiles == Init /\ [][FilesNext]_all_vars

\* ------------------------------------------------------------------------
\* The shell tool, called in the agent's process
\* ------------------------------------------------------------------------
\* Names the environment of the agent's process can hold: the credentials,
\* two names every process has, and one that only looks like a credential.
EnvNames == _CREDENTIAL_ENV_VARS \cup {"PATH", "HOME", "JIRA_EMAIL_CC"}

EnvValue(name) == "<" \o name \o ">"

\* Commands the model sends, working directories it names, and the ways the
\* subprocess ends.
Commands == {"pytest -q", "env"}

Cwds == {<<>>, <<"">>, <<"/tmp">>}

Endings ==
  {Exited(<<"ok", "\n">>, <<>>, 0),
   Exited(<<>>, <<>>, 0),
   Exited(<<" ", "\n">>, <<>>, 0),
   Exited(<<"out", "\n">>, <<"err", "\n">>, 1),
   Exited(<<" ", "M", " ", "a.py", "\n">>, <<>>, 42),
   Exited(<<>>, <<>>, -9),
   TimedOut,
   NotStarted}

\* The agent's process is started with an environment.
Exec(names) ==
  /\ shell_pc = "exec"
  /\ environ' = [k \in names |-> EnvValue(k)]
  /\ shell_pc' = "up"
  /\ UNCHANGED <<shell_calls, last_run>>
  /\ UNCHANGED beside_shell

\* coder.py:287-288 and 368-405: _dispatch calls _run_command, whose
\* subprocess ends in the given way.
RunCommand(command, cwd, ended) ==
  /\ shell_pc = "up"
  /\ shell_calls < MaxToolCalls
  /\ last_run' = <<[command |-> command,
                    cwd |-> CommandCwd(cwd, Workspace),
                    env |-> sanitized_env(environ),
                    ended |-> ended.kind,
                    stdout |-> ended.stdout,
                    stderr |-> ended.stderr,
                    returncode |-> ended.returncode,
                    value |-> CommandOutput(ended)]>>
  /\ shell_calls' = shell_calls + 1
  /\ UNCHANGED <<shell_pc, environ>>
  /\ UNCHANGED beside_shell

ShellNext ==
  \/ \E names \in SUBSET EnvNames : Exec(names)
  \/ \E command \in Commands, cwd \in Cwds, ended \in Endings :
       RunCommand(command, cwd, ended)

SpecShell == Init /\ [][ShellNext]_all_vars

\* ------------------------------------------------------------------------
\* clone_repo, called again and again on one machine
\* ------------------------------------------------------------------------
\* Repository URLs a validation result carries: https and SSH ones, and the
\* ones test_git.py rejects (a file URL, a bare path, plain http, an option,
\* an ssh:// URL), besides the empty string, capitals, a leading blank and
\* beginnings of the allowed prefixes.
RepoUrls ==
  {<<"h", "t", "t", "p", "s", ":", "/", "/", "h", "/", "r">>,
   <<"g", "i", "t", "@", "h", ":", "r">>,
   <<"f", "i", "l", "e", ":", "/", "/", "/", "e", "t", "c">>,
   <<"/", "t", "m", "p", "/", "r">>,
   <<"h", "t", "t", "p", ":", "/", "/", "h", "/", "r">>,
   <<"-", "-", "u", "p", "l", "o", "a", "d", "-", "p", "a", "c", "k", "=", "x">>,
   <<"s", "s", "h", ":", "/", "/", "g", "i", "t", "@", "h", "/", "r">>,
   <<>>,
   <<"H", "T", "T", "P", "S", ":", "/", "/", "h", "/", "r">>,
   <<" ", "h", "t", "t", "p", "s", ":", "/", "/", "h", "/", "r">>,
   <<"h", "t", "t", "p", "s", ":", "/">>,
   <<"g", "i", "t">>}

\* Workspaces poll_once builds (main.py:266).
Dests == {WorkspaceRoot, <<"workspaces", "PROJ-2">>}

\* How git ends: 0, 128 (the repository is not there), or not started.
GitEndings == {<<0>>, <<128>>, <<>>}

\* git.py:11-45
CloneRepo(repo_url, dest, returncode) ==
  /\ clone_calls < MaxClones
  /\ LET r == clone_repo(disk, repo_url, dest, returncode)
     IN /\ disk' = r.disk
        /\ git_runs' = git_runs \o r.runs
        /\ last_clone' = <<[repo_url |-> repo_url, dest |-> dest,
                          returncode |-> returncode, raised |-> r.raised,
                          stale |-> Exists(disk, dest \o <<"stale_file.txt">>)]>>
  /\ clone_calls' = clone_calls + 1
  /\ last_query' = <<>>
  /\ UNCHANGED beside_clone

\* What the agent leaves in a workspace (coder.py:345, write_file): a file
\* of its own, as in test_git.py, and a README it has rewritten.
Leftovers == {<<"stale_file.txt">>, <<"README.md">>}

\* implement_ticket at work in the workspace dest, once it is cloned.
LeaveWork(dest) ==
  /\ clone_calls < MaxClones
  /\ IsDir(disk, dest)
  /\ LET written == {dest \o name : name \in Leftovers}
     IN disk' = [loc \in DOMAIN disk \cup written |->
                   IF loc \in written THEN File(<<"o", "l", "d">>) ELSE disk[loc]]
  /\ UNCHANGED <<git_runs, clone_calls, last_clone, last_query>>
  /\ UNCHANGED beside_clone

\* The branch poll_once asks for (main.py:290): "ngn/" and the key, which
\* is the last name of the workspace (main.py:266).
BranchOf(dest) ==
  IF dest = WorkspaceRoot THEN <<"n", "g", "n", "/", "P", "R", "O", "J", "-", "1">>
  ELSE <<"n", "g", "n", "/", "P", "R", "O", "J", "-", "2">>

\* The line git ls-remote prints for a branch it finds.
RefLine(branch) == <<"a", "b", "c", "1", "2", "3", "\t">> \o RefsHeads \o branch \o <<"\n">>

\* How the query for branch ends: the branch is listed; nothing is listed;
\* git fails (the remote cannot be reached) and writes nothing to its
\* standard output; git cannot be started; its output cannot be decoded.
LsRemoteRuns(branch) ==
  {Completed(RefLine(branch), 0), Completed(<<>>, 0), Completed(<<>>, 128),
   Raises("FileNotFoundError"), Raises("UnicodeDecodeError")}

\* git.py:48-73, called as main.py:293 calls it: once, with the URL of the
\* repository just cloned.
FindBranch(branch, run) ==
  /\ last_clone # <<>>
  /\ last_clone[1].raised = None
  /\ last_query = <<>>
  /\ LET repo_url == last_clone[1].repo_url
         r == find_resume_branch(repo_url, branch, run)
     IN last_query' = <<[repo_url |-> repo_url, branch |-> branch, run |-> run,
                         argv |-> r.argv, value |-> r.value, raised |-> r.raised]>>
  /\ UNCHANGED <<disk, git_runs, clone_calls, last_clone>>
  /\ UNCHANGED beside_clone

CloneNext ==
  \/ \E repo_url \in RepoUrls, dest \in Dests, returncode \in GitEndings :
       CloneRepo(repo_url, dest, returncode)
  \/ /\ last_clone # <<>>
     /\ \E run \in LsRemoteRuns(BranchOf(last_clone[1].dest)) :
          FindBranch(BranchOf(last_clone[1].dest), run)
  \/ \E dest \in Dests : LeaveWork(dest)

SpecClone == Init /\ [][CloneNext]_all_vars

\* ------------------------------------------------------------------------
\* main and poll_once
\* ------------------------------------------------------------------------
\* What a tracker call can raise (None: it returns).  transition_ticket
\* raises ValueError when the workflow offers no transition of that name
\* (jira.py:53-55).
TrackerFailures == {None} \cup HttpxErrors

TransitionFailures == TrackerFailures \cup {"ValueError"}

\* What validate_ticket gives: the input of submit_validation (valid, with
\* a URL that clone_repo takes, with one it refuses, with none; or not
\* valid); or an exception: APIStatusError after the retries
\* (validator.py:63-67), RuntimeError (validator.py:73), or a connection
\* error of the provider.
Validated(valid, repo_url, missing) ==
  [raises |-> None, valid |-> valid, repo_url |-> repo_url, missing |-> missing]

ValidationRaises(name) ==
  [raises |-> name, valid |-> FALSE, repo_url |-> <<>>, missing |-> <<>>]

Validations ==
  {Validated(TRUE, <<<<"g", "i", "t", "@", "h", ":", "r">>>>, <<>>),
   Validated(TRUE, <<<<"f", "i", "l", "e", ":", "/", "/", "/", "e", "t", "c">>>>, <<>>),
   Validated(TRUE, <<>>, <<>>),
   Validated(FALSE, <<>>, <<"Repository URL", "Test requirements">>),
   ValidationRaises("APIStatusError"),
   ValidationRaises("RuntimeError"),
   ValidationRaises("APIConnectionError")}

\* What implement_ticket gives: a result (coder.py:202-229), or an exception
\* that neither it nor _dispatch catches.
Implementations ==
  {[raises |-> None,
    value |-> [success |-> TRUE, pr_url |-> "http://pr", blocked_reason |-> None]],
   [raises |-> None, value |-> _blocked("too ambiguous")],
   [raises |-> "KeyError", value |-> _blocked("")],
   [raises |-> "APIConnectionError", value |-> _blocked("")]}

\* What main.py:293-305 meets: whether the branch is on the remote, whether
\* git checkout succeeds, and the open pull request gh reports (<<>>: none).
Resumes(branch) ==
  {[run |-> Completed(<<>>, 0), checkout |-> TRUE, pr |-> <<>>],
   [run |-> Completed(<<>>, 128), checkout |-> TRUE, pr |-> <<>>],
   [run |-> Raises("FileNotFoundError"), checkout |-> TRUE, pr |-> <<>>],
   [run |-> Completed(RefLine(branch), 0), checkout |-> FALSE, pr |-> <<>>],
   [run |-> Completed(RefLine(branch), 0), checkout |-> TRUE, pr |-> <<>>],
   [run |-> Completed(RefLine(branch), 0), checkout |-> TRUE, pr |-> <<"http://pr">>]}

\* An exception leaves poll_once: main catches the httpx ones and goes on
\* (main.py:92-96); any other leaves main as well.
Leaves(name) ==
  /\ escaped' = name
  /\ main_pc' = IF name \in HttpxErrors THEN "sleep" ELSE "exited"

\* main.py:87-91, 213-214: main calls poll_once, which asks the filter.
EnterPoll ==
  /\ main_pc = "loop"
  /\ polls < MaxPolls
  /\ polls' = polls + 1
  /\ ticket' = <<>>
  /\ ancestors' = <<>>
  /\ validation' = <<>>
  /\ workspace_dir' = <<>>
  /\ resume_branch' = <<>>
  /\ existing_pr_url' = <<>>
  /\ impl' = <<>>
  /\ pending' = <<>>
  /\ pause' = <<>>
  /\ UNCHANGED tracker
  /\ UNCHANGED clone_vars
  /\ UNCHANGED beside_poll

\* jira.get_tickets_from_filter raises.
FilterRaises(name) ==
  /\ EnterPoll
  /\ tickets' = <<>>
  /\ top' = <<>>
  /\ trace' = <<Call("get_tickets_from_filter", <<>>, "", name)>>
  /\ Leaves(name)

\* The lists the filter can return: READY tickets that the saved filter
\* admits, at most MaxListed of them, in the order their priorities and
\* ages give them (those are the users').
MaxListed == 2

Lists(tr) ==
  LET ready == {key \in Candidates : tr[key].status = "READY"}
  IN {list \in UNION {[1..n -> ready] : n \in 0..MaxListed} :
        \A i, j \in 1..Len(list) : i # j => list[i] # list[j]}

\* main.py:220: top = tickets[0]
Top_Last(list) == list[Len(list)]

Top(list) == list[1]

\* main.py:216-221: the filter returns a list; poll_once is over when it is
\* empty, and goes on with its first ticket otherwise.
FilterReturns ==
  /\ EnterPoll
  /\ trace' = <<Call("get_tickets_from_filter", <<>>, "", None)>>
  /\ escaped' = None
  /\ \E list \in Lists(tracker) :
       /\ tickets' = list
       /\ IF list = <<>>
          THEN top' = <<>> /\ main_pc' = "sleep"
          ELSE top' = <<Top(list)>> /\ main_pc' = "get_ticket"

\* main.py:224-251: jira.get_ticket for the ticket, then the test of the key.
GetTicket(raises) ==
  /\ main_pc = "get_ticket"
  /\ trace' = Append(trace, Call("get_ticket", top, "", raises))
  /\ IF raises # None
     THEN Leaves(raises) /\ UNCHANGED <<ticket, pending>>
     ELSE LET fetched == get_ticket(top[1])
          IN /\ ticket' = <<fetched.key>>
             /\ UNCHANGED escaped
             /\ IF ~_TICKET_KEY_RE_match(fetched.key)
                THEN main_pc' = "block" /\ pending' = <<BadKeyLines(fetched.key)>>
                ELSE /\ main_pc' = IF fetched.parent # <<>> THEN "ancestor" ELSE "validate"
                     /\ UNCHANGED pending
  /\ UNCHANGED <<pause, polls, tracker, tickets, top, ancestors, validation, workspace_dir,
                 resume_branch, existing_pr_url, impl>>
  /\ UNCHANGED clone_vars
  /\ UNCHANGED beside_poll

\* main.py:246-251: one pass of the ancestor loop.
GetAncestor(raises) ==
  /\ main_pc = "ancestor"
  /\ LET current == get_ticket(IF ancestors = <<>> THEN ticket[1] ELSE ancestors[1])
         parent_key == current.parent[1]
     IN /\ trace' = Append(trace, Call("get_ticket", <<parent_key>>, "", raises))
        /\ IF raises # None
           THEN Leaves(raises) /\ UNCHANGED ancestors
           ELSE /\ ancestors' = <<parent_key>> \o ancestors
                /\ main_pc' = IF get_ticket(parent_key).parent # <<>>
                              THEN "ancestor" ELSE "validate"
                /\ UNCHANGED escaped
  /\ UNCHANGED <<pause, polls, tracker, tickets, top, ticket, validation, workspace_dir,
                 resume_branch, existing_pr_url, impl, pending>>
  /\ UNCHANGED clone_vars
  /\ UNCHANGED beside_poll

\* main.py:253-264, 337-340: validate_ticket and what poll_once makes of it.
ValidateTicket(answer) ==
  /\ main_pc = "validate"
  /\ trace' = Append(trace, Call("validate_ticket", ticket, "", answer.raises))
  /\ IF answer.raises = "APIStatusError"
     THEN /\ pending' = <<UnavailableLines>>
          /\ main_pc' = "block"
          /\ UNCHANGED <<validation, escaped>>
     ELSE IF answer.raises # None
     THEN Leaves(answer.raises) /\ UNCHANGED <<validation, pending>>
     ELSE /\ validation' = <<answer>>
          /\ UNCHANGED escaped
          /\ IF answer.valid
             THEN main_pc' = "clone" /\ UNCHANGED pending
             ELSE main_pc' = "block" /\ pending' = <<MissingLines(answer.missing)>>
  /\ UNCHANGED <<pause, polls, tracker, tickets, top, ticket, ancestors, workspace_dir,
                 resume_branch, existing_pr_url, impl>>
  /\ UNCHANGED clone_vars
  /\ UNCHANGED beside_poll

\* The text of the exceptions of git.py:32-34 and 45.
CloneError(name, repo_url) ==
  IF name = "ValueError"
  THEN "Unsafe repository URL '" \o Str(repo_url)
         \o "': only https:// and git@ URLs are allowed"
  ELSE "git clone failed:\nfatal: repository not found"

\* main.py:265-285: the workspace is built and clone_repo called.
Clone(returncode) ==
  /\ main_pc = "clone"
  /\ LET repo_url == IF validation[1].repo_url = <<>> THEN <<>>
                     ELSE validation[1].repo_url[1]
         dest == WorkspaceOf(disk, ticket[1])
         r == clone_repo(disk, repo_url, dest, returncode)
     IN /\ workspace_dir' = <<dest>>
        /\ disk' = r.disk
        /\ git_runs' = git_runs \o r.runs
        /\ clone_calls' = clone_calls + 1
        /\ last_clone' = <<[repo_url |-> repo_url, dest |-> dest,
                          returncode |-> returncode, raised |-> r.raised,
                          stale |-> Exists(disk, dest \o <<"stale_file.txt">>)]>>
        /\ trace' = Append(trace, Call("clone_repo", ticket, PathStr(AbsPath(dest)), r.raised))
        /\ IF r.raised \in {"RuntimeError", "ValueError"}
           THEN /\ pending' = <<CloneFailedLines(CloneError(r.raised, repo_url))>>
                /\ main_pc' = "block"
                /\ UNCHANGED escaped
           ELSE IF r.raised # None
           THEN Leaves(r.raised) /\ UNCHANGED pending
           ELSE main_pc' = "resume" /\ UNCHANGED <<pending, escaped>>
  /\ UNCHANGED <<pause, polls, tracker, tickets, top, ticket, ancestors, validation,
                 resume_branch, existing_pr_url, impl>>
  /\ last_query' = <<>>
  /\ UNCHANGED beside_poll

\* main.py:290
ticket_branch == <<"n", "g", "n", "/">> \o ticket[1]

\* main.py:290-305: the branch of an earlier attempt and its pull request.
FindResumeBranch(resume) ==
  /\ main_pc = "resume"
  /\ trace' = Append(trace, Call("find_resume_branch", ticket, "ngn/" \o Str(ticket[1]), None))
  /\ IF ~find_resume_branch(validation[1].repo_url[1], ticket_branch, resume.run).value[1]
     THEN /\ main_pc' = "in_progress"
          /\ UNCHANGED <<resume_branch, existing_pr_url, escaped>>
     ELSE IF ~resume.checkout
     THEN \* subprocess.run(..., check=True) raises
          Leaves("CalledProcessError") /\ UNCHANGED <<resume_branch, existing_pr_url>>
     ELSE /\ resume_branch' = <<"ngn/" \o Str(ticket[1])>>
          /\ existing_pr_url' = resume.pr
          /\ main_pc' = "in_progress"
          /\ UNCHANGED escaped
  /\ UNCHANGED <<pause, polls, tracker, tickets, top, ticket, ancestors, validation,
                 workspace_dir, impl, pending>>
  /\ UNCHANGED clone_vars
  /\ UNCHANGED beside_poll

\* The status each transition of poll_once asks for, and the call that
\* follows it (main.py:231-234, 260-261, 277-284, 308-310, 325, 329-336,
\* 340-348).
TransitionTo == [in_progress |-> "IN PROGRESS", in_review |-> "IN REVIEW", block |-> "BLOCKED"]

AfterTransition_SkipLabel ==
  [in_progress |-> "implement", in_review |-> "sleep", block |-> "comment"]

AfterTransition == [in_progress |-> "label", in_review |-> "sleep", block |-> "comment"]

\* jira.transition_ticket
TransitionTicket(raises) ==
  /\ main_pc \in DOMAIN TransitionTo
  /\ trace' = Append(trace, Call("transition_ticket", ticket, TransitionTo[main_pc], raises))
  /\ IF raises # None
     THEN Leaves(raises) /\ UNCHANGED tracker
     ELSE /\ tracker' = Transitioned(tracker, ticket[1], TransitionTo[main_pc])
          /\ main_pc' = AfterTransition[main_pc]
          /\ UNCHANGED escaped
  /\ UNCHANGED <<pause, polls, tickets, top, ticket, ancestors, validation, workspace_dir,
                 resume_branch, existing_pr_url, impl, pending>>
  /\ UNCHANGED clone_vars
  /\ UNCHANGED beside_poll

\* main.py:309-310: jira.add_label
AddLabel(raises) ==
  /\ main_pc = "label"
  /\ trace' = Append(trace, Call("add_label", ticket, "ngn-handled", raises))
  /\ IF raises # None
     THEN Leaves(raises) /\ UNCHANGED tracker
     ELSE /\ tracker' = Labelled(tracker, ticket[1], "ngn-handled")
          /\ main_pc' = "implement"
          /\ UNCHANGED escaped
  /\ UNCHANGED <<pause, polls, tickets, top, ticket, ancestors, validation, workspace_dir,
                 resume_branch, existing_pr_url, impl, pending>>
  /\ UNCHANGED clone_vars
  /\ UNCHANGED beside_poll

\* main.py:312-327: implement_ticket and what poll_once makes of it.
ImplementTicket(answer) ==
  /\ main_pc = "implement"
  /\ trace' = Append(trace, Call("implement_ticket", ticket, "", answer.raises))
  /\ IF answer.raises # None
     THEN Leaves(answer.raises) /\ UNCHANGED <<impl, pending>>
     ELSE /\ impl' = <<answer.value>>
          /\ UNCHANGED escaped
          /\ IF answer.value.success
             THEN main_pc' = "in_review" /\ UNCHANGED pending
             ELSE /\ main_pc' = "block"
                  /\ pending' = <<ImplBlockedLines(answer.value.blocked_reason)>>
  /\ UNCHANGED <<pause, polls, tracker, tickets, top, ticket, ancestors, validation,
                 workspace_dir, resume_branch, existing_pr_url>>
  /\ UNCHANGED clone_vars
  /\ UNCHANGED beside_poll

\* jira.post_comment with the lines and the mention of the reporter.
PostComment(raises) ==
  /\ main_pc = "comment"
  /\ trace' = Append(trace, Call("post_comment", ticket, "", raises))
  /\ IF raises # None
     THEN Leaves(raises) /\ UNCHANGED tracker
     ELSE /\ tracker' = Commented(tracker, ticket[1], pending[1],
                                  Mention(get_ticket(ticket[1])))
          /\ main_pc' = "sleep"
          /\ UNCHANGED escaped
  /\ UNCHANGED <<pause, polls, tickets, top, ticket, ancestors, validation, workspace_dir,
                 resume_branch, existing_pr_url, impl, pending>>
  /\ UNCHANGED clone_vars
  /\ UNCHANGED beside_poll

\* The seconds a poll cycle can take, and the seconds time.sleep can return
\* late (it never returns early).
Elapsed == {0, 5, 30, 60}

Oversleep == {0, 1}

\* main.py:99
Wait_WholeInterval(elapsed) == _POLL_INTERVAL

Wait(elapsed) == _POLL_INTERVAL - elapsed

\* main.py:98-104: the rest of the interval, then the next pass of the loop.
Sleep(elapsed, late) ==
  /\ main_pc = "sleep"
  /\ main_pc' = "loop"
  /\ pause' = IF Wait(elapsed) > 0
              THEN <<[elapsed |-> elapsed, slept |-> <<Wait(elapsed)>>,
                      gap |-> elapsed + Wait(elapsed) + late]>>
              ELSE <<[elapsed |-> elapsed, slept |-> <<>>, gap |-> elapsed]>>
  /\ UNCHANGED <<polls, tracker, tickets, top, ticket, ancestors, validation,
                 workspace_dir, resume_branch, existing_pr_url, impl, pending,
                 trace, escaped>>
  /\ UNCHANGED clone_vars
  /\ UNCHANGED beside_poll

PollNext ==
  \/ \E name \in HttpxErrors : FilterRaises(name)
  \/ FilterReturns
  \/ \E raises \in TrackerFailures : GetTicket(raises)
  \/ \E raises \in TrackerFailures : GetAncestor(raises)
  \/ \E answer \in Validations : ValidateTicket(answer)
  \/ \E returncode \in GitEndings : Clone(returncode)
  \/ main_pc = "resume" /\ \E resume \in Resumes(ticket_branch) : FindResumeBranch(resume)
  \/ \E raises \in TransitionFailures : TransitionTicket(raises)
  \/ \E raises \in TrackerFailures : AddLabel(raises)
  \/ \E answer \in Implementations : ImplementTicket(answer)
  \/ \E raises \in TrackerFailures : PostComment(raises)
  \/ \E elapsed \in Elapsed, late \in Oversleep : Sleep(elapsed, late)

SpecPoll == Init /\ [][PollNext]_all_vars

\* ------------------------------------------------------------------------
\* get_tickets_from_filter
\* ------------------------------------------------------------------------
\* "created" as the tracker writes it: the local time of the account that
\* asks, then its offset from UTC at that time.  The three are the night a
\* summer time of +0200 ends: 00:30, 01:10 and 02:10 UTC.
Chars(hour, minute, offset) ==
  <<"2", "0", "2", "4", "-", "1", "0", "-", "2", "7", "T">> \o hour \o <<":">>
    \o minute \o <<":", "0", "0", ".", "0", "0", "0", "+">> \o offset

CreatedTimes ==
  {Chars(<<"0", "2">>, <<"3", "0">>, <<"0", "2", "0", "0">>),
   Chars(<<"0", "2">>, <<"1", "0">>, <<"0", "1", "0", "0">>),
   Chars(<<"0", "3">>, <<"1", "0">>, <<"0", "1", "0", "0">>)}

IssueTypes == {"Bug", "Task", "Story"}

\* The priorities of the issues: two that _PRIORITY_ORDER names, and none.
Priorities == {"High", "Low", None}

\* The fields the search answers for an issue (the filter admits Bug, Task
\* and Story only, jira.py:87).
FoundFields ==
  [issuetype : IssueTypes, priority : Priorities, created : CreatedTimes]

SeqsUpTo(S, n) == UNION {[1..k -> S] : k \in 0..n}

\* The issues of an answer: the n-th has the key PROJ-n.
Found(fields) ==
  [i \in 1..Len(fields) |->
     [key |-> <<"P", "R", "O", "J", "-", ToString(i)>>,
      issuetype |-> fields[i].issuetype, priority |-> fields[i].priority,
      created |-> fields[i].created]]

\* jira.py:82-96: the tracker answers the search with a list of issues.
GetTicketsFromFilter(issues) ==
  /\ last_search = <<>>
  /\ last_transition = <<>>
  /\ last_search' = <<[issues |-> issues, tickets |-> get_tickets_from_filter(issues)]>>
  /\ UNCHANGED last_transition
  /\ UNCHANGED beside_sort

\* The transitions the tracker offers for an issue: the ones of
\* test_jira.py (with and without Blocked), none at all, and a workflow
\* with two transitions whose names differ in case only.
Workflows ==
  {<<[id |-> "11", name |-> "In Progress"], [id |-> "21", name |-> "Blocked"],
     [id |-> "31", name |-> "Done"]>>,
   <<[id |-> "11", name |-> "In Progress"], [id |-> "31", name |-> "Done"]>>,
   <<>>,
   <<[id |-> "41", name |-> "In Review"], [id |-> "21", name |-> "BLOCKED"],
     [id |-> "22", name |-> "Blocked"]>>}

\* The names poll_once asks for, and test_jira.py's lower-case one.
StatusNames == {"IN PROGRESS", "IN REVIEW", "BLOCKED", "blocked"}

HttpReplies == {Responds(200), Responds(204), Responds(404), Responds(500), NoResponse}

\* The status of the issue once the tracker has carried out the transition
\* with the identifier id.
Moved(transitions, id, before) ==
  LET hits == SelectSeq(transitions, LAMBDA t : t.id = id)
  IN IF hits = <<>> THEN before ELSE hits[1].name

\* jira.py:41-62, against a tracker that carries out the transitions it
\* answers with 2xx and no other.
TransitionIssue(status_name, transitions, got, posted) ==
  /\ last_search = <<>>
  /\ last_transition = <<>>
  /\ LET r == transition_ticket("PROJ-1", status_name, transitions, got, posted)
         before == "READY"
         carried == /\ Len(r.sent) = 2
                    /\ posted # NoResponse
                    /\ raise_for_status(posted) = None
     IN last_transition' =
          <<[status_name |-> status_name, transitions |-> transitions,
             got |-> got, sent |-> r.sent, raised |-> r.raised, before |-> before,
             after |-> IF carried THEN Moved(transitions, r.sent[2].id, before)
                       ELSE before]>>
  /\ UNCHANGED last_search
  /\ UNCHANGED beside_sort

SortNext ==
  \/ \E fields \in SeqsUpTo(FoundFields, MaxIssues) : GetTicketsFromFilter(Found(fields))
  \/ \E status_name \in StatusNames, transitions \in Workflows,
        got \in HttpReplies, posted \in HttpReplies :
       TransitionIssue(status_name, transitions, got, posted)

SpecSort == Init /\ [][SortNext]_all_vars

\* ------------------------------------------------------------------------
\* main with and without --validate
\* ------------------------------------------------------------------------
\* The environments the process is started in: every required name set, one
\* of them missing, two of them missing, none of them set.
Environments ==
  {{"ANTHROPIC_API_KEY", "JIRA_BASE_URL", "JIRA_EMAIL", "JIRA_API_TOKEN", "JIRA_FILTER_ID"},
   {"ANTHROPIC_API_KEY", "JIRA_BASE_URL", "JIRA_EMAIL", "JIRA_API_TOKEN"},
   {"JIRA_BASE_URL", "JIRA_EMAIL", "JIRA_FILTER_ID"},
   {}}

\* What the tracker answers to each of the four requests.
AuthReplies == {Answers(<<"Agent ngn">>, {}), Answers(<<>>, {}), AnswersStatus(401), Fails}

FilterReplies == {Answers(<<"Ready work">>, {}), AnswersStatus(404), Fails}

IssueTypeReplies ==
  {Answers(<<>>, {"Bug", "Epic", "Story", "Task"}), Answers(<<>>, {"Bug", "Task"}),
   AnswersStatus(403), Fails}

StatusReplies ==
  {Answers(<<>>, {"Ready", "In Progress", "In Review", "Blocked", "Done"}),
   Answers(<<>>, {"READY", "IN PROGRESS", "IN REVIEW"}),
   AnswersStatus(500), Fails}

\* main.py:46-85, jira.py:128-146: main reads the arguments; with --validate
\* it calls _run_validate, which calls validate_setup, which begins with the
\* environment; without, it leaves when a required name is missing and
\* enters the polling loop otherwise.
Main(validate, env) ==
  /\ cli_pc = "start"
  /\ cli_validate' = validate
  /\ cli_env' = env
  /\ IF validate
     THEN /\ checks' = EnvironmentCheck(env)
          /\ cli_pc' = IF missing_vars(env) # <<>> THEN "report" ELSE "auth"
          /\ UNCHANGED exit_code
     ELSE /\ checks' = <<>>
          /\ IF missing_vars(env) # <<>>
             THEN cli_pc' = "exited" /\ exit_code' = <<1>>
             ELSE cli_pc' = "polling" /\ UNCHANGED exit_code
  /\ UNCHANGED <<http_gets, stdout_lines>>
  /\ UNCHANGED beside_setup

\* jira.py:152-184: the second check; validate_setup returns when it fails.
Authenticate(reply) ==
  /\ cli_pc = "auth"
  /\ http_gets' = Append(http_gets, "/rest/api/3/myself")
  /\ IF reply.kind = "ok"
     THEN /\ checks' = Append(checks, NamedCheck("JIRA authentication", reply))
          /\ cli_pc' = "filter"
     ELSE /\ checks' = Append(checks, NamedCheck("JIRA authentication", reply))
                         \o _skipped_checks(<<"Filter accessible", "Issue types", "Statuses">>)
          /\ cli_pc' = "report"
  /\ UNCHANGED <<cli_validate, cli_env, stdout_lines, exit_code>>
  /\ UNCHANGED beside_setup

\* jira.py:186-214: the third check.
GetFilter(reply) ==
  /\ cli_pc = "filter"
  /\ http_gets' = Append(http_gets, "/rest/api/3/filter/99")
  /\ checks' = Append(checks, NamedCheck("Filter accessible", reply))
  /\ cli_pc' = "issuetypes"
  /\ UNCHANGED <<cli_validate, cli_env, stdout_lines, exit_code>>
  /\ UNCHANGED beside_setup

\* jira.py:216-250: the fourth check.
GetIssueTypes(reply) ==
  /\ cli_pc = "issuetypes"
  /\ http_gets' = Append(http_gets, "/rest/api/3/issuetype")
  /\ checks' = Append(checks, IssueTypesCheck(reply))
  /\ cli_pc' = "statuses"
  /\ UNCHANGED <<cli_validate, cli_env, stdout_lines, exit_code>>
  /\ UNCHANGED beside_setup

\* jira.py:252-288: the fifth check, after which validate_setup returns.
GetStatuses(reply) ==
  /\ cli_pc = "statuses"
  /\ http_gets' = Append(http_gets, "/rest/api/3/status")
  /\ checks' = Append(checks, StatusesCheck(reply))
  /\ cli_pc' = "report"
  /\ UNCHANGED <<cli_validate, cli_env, stdout_lines, exit_code>>
  /\ UNCHANGED beside_setup

\* main.py:117-155: _run_validate prints the results and the warning, and
\* leaves the process.
Report ==
  /\ cli_pc = "report"
  /\ stdout_lines' = [i \in 1..Len(checks) |-> ReportLine(checks[i])]
                        \o <<TransitionsWarning>>
  /\ exit_code' = <<ExitCode(checks)>>
  /\ cli_pc' = "exited"
  /\ UNCHANGED <<cli_validate, cli_env, http_gets, checks>>
  /\ UNCHANGED beside_setup

SetupNext ==
  \/ \E validate \in BOOLEAN, env \in Environments : Main(validate, env)
  \/ \E reply \in AuthReplies : Authenticate(reply)
  \/ \E reply \in FilterReplies : GetFilter(reply)
  \/ \E reply \in IssueTypeReplies : GetIssueTypes(reply)
  \/ \E reply \in StatusReplies : GetStatuses(reply)
  \/ Report

SpecSetup == Init /\ [][SetupNext]_all_vars

\* ------------------------------------------------------------------------
\* poll_once: the ancestors of the ticket and the two prompts
\* ------------------------------------------------------------------------
\* h with the parent of each key of the chain set to the next one.
RECURSIVE Chain(_, _)
Chain(h, keys) ==
  IF Len(keys) < 2 THEN h
  ELSE Chain([h EXCEPT ![keys[1]] = <<keys[2]>>], Tail(keys))

\* Trackers: no parents; a chain of four; two tickets under one epic; a
\* ticket that is its own parent; two tickets that are each other's parent,
\* with a third below them.
Hierarchies ==
  {Flat,
   Chain(Flat, <<"PROJ-1", "PROJ-2", "PROJ-3", "PROJ-4">>),
   Chain(Chain(Flat, <<"PROJ-1", "PROJ-3">>), <<"PROJ-2", "PROJ-3">>),
   Chain(Flat, <<"PROJ-1", "PROJ-1">>),
   Chain(Chain(Flat, <<"PROJ-1", "PROJ-2", "PROJ-1">>), <<"PROJ-3", "PROJ-1">>)}

\* main.py:244-246: poll_once has fetched the ticket and enters the loop.
StartWalk(h, key) ==
  /\ walk_pc = "start"
  /\ hierarchy' = h
  /\ subject' = key
  /\ walk_pc' = IF h[key] # <<>> THEN "ancestor" ELSE "validate"
  /\ UNCHANGED <<lineage, fetches, validator_prompt, coder_prompt>>
  /\ UNCHANGED beside_walk

\* main.py:246-251: one pass of the loop.
FetchAncestor(raises) ==
  /\ walk_pc = "ancestor"
  /\ Len(fetches) < MaxFetches
  /\ LET current == IF lineage = <<>> THEN subject ELSE lineage[1]
         parent_key == hierarchy[current][1]
     IN /\ fetches' = Append(fetches, parent_key)
        /\ IF raises # None
           THEN walk_pc' = "raised" /\ UNCHANGED lineage
           ELSE /\ lineage' = <<parent_key>> \o lineage
                /\ walk_pc' = IF hierarchy[parent_key] # <<>> THEN "ancestor" ELSE "validate"
  /\ UNCHANGED <<hierarchy, subject, validator_prompt, coder_prompt>>
  /\ UNCHANGED beside_walk

AncestorTickets == [i \in 1..Len(lineage) |-> FullTicket(hierarchy, lineage[i])]

\* main.py:253-255, validator.py:47-51
ValidateWalked(valid) ==
  /\ walk_pc = "validate"
  /\ validator_prompt' = ValidatorContent(FullTicket(hierarchy, subject), AncestorTickets)
  /\ walk_pc' = IF valid THEN "implement" ELSE "over"
  /\ UNCHANGED <<hierarchy, subject, lineage, fetches, coder_prompt>>
  /\ UNCHANGED beside_walk

\* main.py:313-320, coder.py:183
ImplementWalked(resume, pr) ==
  /\ walk_pc = "implement"
  /\ coder_prompt' = _build_prompt(FullTicket(hierarchy, subject),
                                    "/srv/ngn/workspaces/" \o subject,
                                    AncestorTickets, resume, pr)
  /\ walk_pc' = "over"
  /\ UNCHANGED <<hierarchy, subject, lineage, fetches, validator_prompt>>
  /\ UNCHANGED beside_walk

WalkNext ==
  \/ \E h \in Hierarchies, key \in WalkKeys : StartWalk(h, key)
  \/ \E raises \in {None, "ConnectError", "HTTPStatusError"} : FetchAncestor(raises)
  \/ \E valid \in BOOLEAN : ValidateWalked(valid)
  \/ \E resume \in {<<>>, <<"ngn/PROJ-1">>}, pr \in {<<>>, <<"http://pr">>} :
       ImplementWalked(resume, pr)

SpecWalk == Init /\ [][WalkNext]_all_vars

\* ------------------------------------------------------------------------
\* Vocabulary of the claims
\* ------------------------------------------------------------------------
IsToolUse(block) == block.type = "tool_use"

IsNamed(block, name) == IsToolUse(block) /\ block.name = name

IsTerminalBlock(block) == IsNamed(block, "submit_work") \/ IsNamed(block, "report_blocked")

ToolUses(content) == SelectSeq(content, IsToolUse)

TerminalIndexes(content) == {i \in 1..Len(content) : IsTerminalBlock(content[i])}

HasTerminal(content) == TerminalIndexes(content) # {}

HasBothTerminals(content) ==
  /\ \E i \in 1..Len(content) : IsNamed(content[i], "submit_work")
  /\ \E i \in 1..Len(content) : IsNamed(content[i], "report_blocked")

FirstTerminal(content) ==
  content[CHOOSE i \in TerminalIndexes(content) : \A j \in TerminalIndexes(content) : i <= j]

Success(reference) == [success |-> TRUE, pr_url |-> reference, blocked_reason |-> None]

Blocked(reason) == [success |-> FALSE, pr_url |-> None, blocked_reason |-> reason]

\* The outcome a terminal block asks for.
SignalledOutcome(block) ==
  IF block.name = "submit_work"
  THEN Success(IF "pr_url" \in DOMAIN block.input THEN block.input.pr_url ELSE None)
  ELSE Blocked(IF "reason" \in DOMAIN block.input THEN block.input.reason
               ELSE "No reason provided")

ContextWindowReason == "Context window limit reached - conversation history too long"

StoppedReason == "Agent stopped without submitting or reporting blocked"

MaxTurnsReason == "Exceeded maximum turn limit (100)"

UnavailableReason ==
  "API unavailable after retries (rate limited or overloaded) - try again later"

\* The response of the current turn, once it has been read.
Resp == response[1]

UnderLimit(resp) == resp.usage.input_tokens < 180000

\* The last two messages of the history are an assistant message and a user
\* message that answers each of its tool invocations once, in order.
Answered(msgs) ==
  /\ Len(msgs) >= 3
  /\ msgs[Len(msgs) - 1].role = "assistant"
  /\ msgs[Len(msgs)].role = "user"
  /\ LET uses == ToolUses(msgs[Len(msgs) - 1].content)
         results == msgs[Len(msgs)].content
     IN /\ Len(results) = Len(uses)
        /\ \A i \in 1..Len(uses) :
             /\ results[i].type = "tool_result"
             /\ results[i].tool_use_id = uses[i].id
        /\ \A i, j \in 1..Len(results) :
             results[i].tool_use_id = results[j].tool_use_id => i = j

\* ------------------------------------------------------------------------
\* Claims
\* ------------------------------------------------------------------------

\* C1: whenever implement_ticket issues a provider call other than the first,
\* the history ends with the preceding assistant response followed by one
\* user message that holds, for every tool invocation of that response and in
\* the same order, exactly one tool result with the invocation's identifier.
C1_CallsFindInvocationsAnswered ==
  [][(calls' = calls + 1 /\ calls >= 1) => Answered(messages)]_vars

\* A second provider call is about to be issued after a response with two
\* tool invocations, both dispatched and answered.
C1_Witness ==
  /\ pc = "turn" /\ turn = 1 /\ calls = 1
  /\ Len(ToolUses(Resp.content)) = 2
  /\ Len(dispatched) = 2
  /\ Len(messages[3].content) = 2

\* C2 as stated: a response with a submit_work or report_blocked block ends
\* implement_ticket on that turn with no tool of the response dispatched and
\* no further provider call; and when both signals are present, the outcome
\* is the one the first of them asks for.
C2_FirstSignalAlwaysDecides ==
  (response # <<>> /\ HasTerminal(Resp.content)) =>
     /\ pc = "done" /\ raised = None
     /\ dispatched = <<>>
     /\ calls = nresponses
     /\ HasBothTerminals(Resp.content) =>
          result = <<SignalledOutcome(FirstTerminal(Resp.content))>>

\* C2 as amended: as C2, but the first signal decides the outcome when the
\* response is under the token limit.
C2_FirstSignalDecidesUnderLimit ==
  (response # <<>> /\ HasTerminal(Resp.content)) =>
     /\ pc = "done" /\ raised = None
     /\ dispatched = <<>>
     /\ calls = nresponses
     /\ (HasBothTerminals(Resp.content) /\ UnderLimit(Resp)) =>
          result = <<SignalledOutcome(FirstTerminal(Resp.content))>>

\* A response under the limit with report_blocked before submit_work has
\* ended the attempt as blocked.
C2_Witness ==
  /\ response # <<>>
  /\ UnderLimit(Resp)
  /\ Len(Resp.content) = 2
  /\ IsNamed(Resp.content[1], "report_blocked")
  /\ IsNamed(Resp.content[2], "submit_work")
  /\ pc = "done"
  /\ result = <<Blocked("too ambiguous")>>

\* C3: for the response of any turn, an input-token count at or above 180000
\* ends implement_ticket as Blocked with the context-window reason, whatever
\* the response holds and with no tool dispatched; a count below 180000 never
\* gives that outcome.
C3_TokenLimitBlocks ==
  response # <<>> =>
     /\ ~UnderLimit(Resp) =>
          /\ pc = "done"
          /\ result = <<Blocked(ContextWindowReason)>>
          /\ dispatched = <<>>
     /\ UnderLimit(Resp) => result # <<Blocked(ContextWindowReason)>>

\* In a later turn a response of exactly 180000 input tokens that holds a
\* valid submit_work has been blocked.
C3_Witness ==
  /\ response # <<>>
  /\ turn >= 1
  /\ Resp.usage.input_tokens = 180000
  /\ \E i \in 1..Len(Resp.content) : IsNamed(Resp.content[i], "submit_work")
  /\ result = <<Blocked(ContextWindowReason)>>

\* A response as C4 means it: under the token limit, with at least one tool
\* invocation, none of them terminal, each with the fields its schema
\* requires, and not marked by the provider as the natural end of the turn.
ToolCallResponse(resp) ==
  /\ UnderLimit(resp)
  /\ ToolUses(resp.content) # <<>>
  /\ ~HasTerminal(resp.content)
  /\ resp.stop_reason # "end_turn"
  /\ \A i \in 1..Len(resp.content) :
       IsToolUse(resp.content[i]) =>
         Required(resp.content[i].name) \subseteq DOMAIN resp.content[i].input

C5_StoppedOnlyWithoutToolUse ==
  (response # <<>> /\ UnderLimit(Resp)) =>
     /\ result = <<Blocked(StoppedReason)>> =>
          (ToolUses(Resp.content) = <<>> /\ Resp.stop_reason = "end_turn")
     /\ (/\ ToolUses(Resp.content) # <<>>
         /\ ~HasTerminal(Resp.content)
         /\ \A i \in 1..Len(Resp.content) :
              IsToolUse(Resp.content[i]) =>
                Required(Resp.content[i].name) \subseteq DOMAIN Resp.content[i].input)
        => /\ pc = "turn"
           /\ dispatched = [i \in 1..Len(ToolUses(Resp.content)) |-> ToolUses(Resp.content)[i].id]
           /\ Answered(messages)

\* C6: a response under the token limit whose first terminal block is
\* submit_work ends implement_ticket with success = True, pr_url the
\* reference of that block and blocked_reason None; when it is the first
\* response, one provider call has been made.
C6_SubmitWorkSucceeds ==
  (/\ response # <<>> /\ UnderLimit(Resp) /\ HasTerminal(Resp.content)
   /\ IsNamed(FirstTerminal(Resp.content), "submit_work"))
  => /\ pc = "done" /\ raised = None
     /\ Len(result) = 1
     /\ result[1].success = TRUE
     /\ result[1].pr_url = FirstTerminal(Resp.content).input.pr_url
     /\ result[1].blocked_reason = None
     /\ nresponses = 1 => calls = 1

\* The first response is a text block followed by submit_work, and
\* implement_ticket has returned success with its reference.
C6_Witness ==
  /\ response # <<>> /\ UnderLimit(Resp)
  /\ nresponses = 1 /\ calls = 1
  /\ Len(Resp.content) = 2
  /\ Resp.content[1].type = "text"
  /\ IsNamed(Resp.content[2], "submit_work")
  /\ pc = "done"
  /\ result = <<Success("http://pr")>>

\* C7: a response under the token limit whose first terminal block is
\* report_blocked ends implement_ticket with success = False, pr_url None and
\* blocked_reason the reason of that block, or "No reason provided" when the
\* block has none.
C7_ReportBlockedFails ==
  (/\ response # <<>> /\ UnderLimit(Resp) /\ HasTerminal(Resp.content)
   /\ IsNamed(FirstTerminal(Resp.content), "report_blocked"))
  => /\ pc = "done" /\ raised = None
     /\ Len(result) = 1
     /\ result[1].success = FALSE
     /\ result[1].pr_url = None
     /\ result[1].blocked_reason =
          IF "reason" \in DOMAIN FirstTerminal(Resp.content).input
          THEN FirstTerminal(Resp.content).input.reason
          ELSE "No reason provided"

\* A report_blocked without a reason has ended implement_ticket with the
\* placeholder.
C7_Witness ==
  /\ response # <<>> /\ UnderLimit(Resp)
  /\ HasTerminal(Resp.content)
  /\ IsNamed(FirstTerminal(Resp.content), "report_blocked")
  /\ FirstTerminal(Resp.content).input = EmptyInput
  /\ pc = "done"
  /\ result = <<Blocked("No reason provided")>>

\* The statuses the retry wrapper is said to retry.
Transient(code) == code \in {429, 500, 529}

C9_NonTransientNotRetried ==
  /\ (pc = "call" /\ attempt > 0) =>
       (create_error # <<>> /\ Transient(create_error[1]))
  /\ (create_error # <<>> /\ ~Transient(create_error[1])) =>
       /\ pc \in {"except", "done"}
       /\ exc = create_error
       /\ creates = attempt + 1
       /\ calls = turn + 1
       /\ response = <<>> /\ dispatched = <<>>
       /\ raised = None
       /\ pc = "except" => ENABLED HandleStatusError
       /\ pc = "done" =>
            result = <<Blocked("API error: Error code: " \o ToString(create_error[1]))>>

\* The first attempt of a turn met status 400 and implement_ticket returned
\* Blocked after that one attempt.
C9_Witness ==
  /\ pc = "done"
  /\ create_error = <<400>>
  /\ creates = 1
  /\ result = <<Blocked("API error: Error code: 400")>>

\* C10: when the 60 attempts of a turn are exhausted, implement_ticket raises
\* nothing and returns Blocked: with the "API unavailable" reason when the
\* last error was 429 or 529, with an "API error" reason otherwise.
C10_ExhaustedRetriesBlock ==
  (creates = 60 /\ create_error # <<>> /\ Transient(create_error[1])) =>
     /\ pc \in {"except", "done"}
     /\ raised = None
     /\ pc = "except" => ENABLED HandleStatusError
     /\ pc = "done" =>
          result = IF create_error[1] \in {429, 529}
                   THEN <<Blocked(UnavailableReason)>>
                   ELSE <<Blocked("API error: Error code: " \o ToString(create_error[1]))>>

\* Sixty attempts ended with status 500 and implement_ticket returned an
\* "API error" outcome.
C10_Witness ==
  /\ pc = "done"
  /\ creates = 60
  /\ create_error = <<500>>
  /\ result = <<Blocked("API error: Error code: 500")>>

\* C11: every status of the internal-server class (500..599) is treated as
\* transient: while the attempt ceiling is not reached, the attempt that met
\* it is followed by another attempt of the same provider call instead of
\* ending the call.
C11_Every5xxRetried ==
  (/\ create_error # <<>>
   /\ create_error[1] >= 500 /\ create_error[1] <= 599
   /\ creates < _MAX_RETRIES) =>
     (pc = "call" /\ attempt = creates)

\* C12: validate_ticket and _call_with_retry follow the same retry policy:
\* given the same provider outcomes, once both have ended they have made the
\* same number of client.messages.create attempts, at most 60, and have
\* ended the same way, both returning the response or both raising the same
\* error.
C12_SameRetryPolicy ==
  (v_loop.end # "running" /\ c_loop.end # "running") =>
     /\ v_loop.creates = c_loop.creates
     /\ v_loop.creates <= 60
     /\ v_loop.end = c_loop.end
     /\ v_loop.error = c_loop.error

\* C13: _dispatch returns a string for every tool name and every argument
\* mapping, also one that lacks a required field: once the blocks of a
\* response have been handed to _dispatch, no exception has left
\* implement_ticket.
C13_DispatchNeverRaises ==
  dispatched # <<>> => (raised = None /\ pc # "raised")

\* The latest tool call.
Last == last_call[1]

\* A location is the workspace root or below it.
InWorkspace(loc) ==
  /\ Len(loc) >= 2
  /\ loc[1] = "workspaces"
  /\ loc[2] = "PROJ-1"

\* The string the file tools return for a path outside the workspace.
OutsideError(call) ==
  "Error: path '" \o PathStr(call.path) \o "' is outside the workspace and cannot be "
    \o (IF call.name = "read_file" THEN "accessed" ELSE "written")

\* C14: a read_file or write_file call whose path resolves to a location
\* that is neither the workspace root nor below it returns the error string
\* and does nothing to the file system: no read, no directory made, no file
\* written.
C14_OutsideTouchesNothing ==
  [][(/\ last_call' # <<>>
      /\ tool_calls' = tool_calls + 1
      /\ last_call'[1].name \in {"read_file", "write_file"}
      /\ ~InWorkspace(resolve(fs, last_call'[1].path))) =>
        /\ last_call'[1].value = OutsideError(last_call'[1])
        /\ last_call'[1].io = <<>>
        /\ fs' = fs]_files_vars

\* A write through the symbolic link that leaves the workspace has been
\* refused, after an earlier write inside the workspace made a directory and
\* a file.
C14_Witness ==
  /\ last_call # <<>>
  /\ Last.name = "write_file"
  /\ Last.path = AbsPath(WorkspaceRoot \o <<"out", "sub", "new">>)
  /\ Last.value = "Error: path '/workspaces/PROJ-1/out/sub/new' is outside the workspace and cannot be written"
  /\ Last.io = <<>>
  /\ IsFile(fs, WorkspaceRoot \o <<"pkg", "b.py">>)
  /\ ~Exists(fs, <<"etc", "sub">>)

\* The five credential names.
Credentials ==
  {"ANTHROPIC_API_KEY", "JIRA_API_TOKEN", "JIRA_EMAIL", "JIRA_BASE_URL",
   "JIRA_FILTER_ID"}

\* C15: every run_command hands the subprocess the environment of the
\* agent's process without the five credential names, every other name with
\* its value, and leaves the environment of the agent's process as it was.
C15_CredentialsNotForwarded ==
  [][shell_calls' = shell_calls + 1 =>
       /\ last_run' # <<>>
       /\ DOMAIN last_run'[1].env = DOMAIN environ \ Credentials
       /\ \A k \in DOMAIN last_run'[1].env : last_run'[1].env[k] = environ[k]
       /\ environ' = environ]_shell_vars

\* A command has run in a process that holds all five credentials and three
\* other names; the subprocess was handed the three other names only.
C15_Witness ==
  /\ last_run # <<>>
  /\ DOMAIN environ = Credentials \cup {"PATH", "HOME", "JIRA_EMAIL_CC"}
  /\ DOMAIN last_run[1].env = {"PATH", "HOME", "JIRA_EMAIL_CC"}
  /\ last_run[1].ended = "exit"
  /\ shell_calls = 2

\* The text of the first n characters of a URL.
Beginning(url, n) == Str(SubSeq(url, 1, IF Len(url) < n THEN Len(url) ELSE n))

\* C16: clone_repo with a URL that begins with neither "https://" nor "git@"
\* raises ValueError, calls subprocess.run not once and leaves the file
\* system as it was: the destination is not removed, no parent directory is
\* made.
C16_BadUrlTouchesNothing ==
  [][(/\ clone_calls' = clone_calls + 1
      /\ Beginning(last_clone'[1].repo_url, 8) # "https://"
      /\ Beginning(last_clone'[1].repo_url, 4) # "git@") =>
        /\ last_clone'[1].raised = "ValueError"
        /\ git_runs' = git_runs
        /\ disk' = disk]_clone_vars

\* After a clone into the workspace of PROJ-1, clone_repo has refused a
\* file:// URL for the same destination, which is still there; git has run
\* once.
C16_Witness ==
  /\ last_clone # <<>>
  /\ Str(last_clone[1].repo_url) = "file:///etc"
  /\ last_clone[1].dest = WorkspaceRoot
  /\ last_clone[1].raised = "ValueError"
  /\ IsFile(disk, WorkspaceRoot \o <<"README.md">>)
  /\ Len(git_runs) = 1

\* The calls of the given function with the given argument that poll_once
\* has made in this cycle and that returned.
Made(name, arg) ==
  {i \in 1..Len(trace) :
     trace[i].call = name /\ trace[i].arg = arg /\ trace[i].raises = None}

\* poll_once is over, by a return or by an exception.
CycleOver == main_pc \in {"sleep", "exited"}

\* The mention a comment on the issue has to carry.
ReporterOf(key) ==
  LET issue == CHOOSE i \in Issues : i.key = key
  IN IF issue.reporter = <<>> THEN <<>>
     ELSE <<issue.reporter[1].account_id, issue.reporter[1].display_name>>

\* C17: a poll cycle that has selected a ticket and has not moved it to IN
\* REVIEW has, when it is over, moved it to BLOCKED exactly once and posted
\* exactly one comment on it, which mentions the reporter when the ticket
\* has one.
C17_NonSuccessBlocksOnce ==
  (CycleOver /\ top # <<>> /\ Made("transition_ticket", "IN REVIEW") = {}) =>
     /\ Cardinality(Made("transition_ticket", "BLOCKED")) = 1
     /\ Cardinality(Made("post_comment", "")) = 1
     /\ tracker[top[1]].status = "BLOCKED"
     /\ tracker[top[1]].comments # <<>>
     /\ tracker[top[1]].comments[Len(tracker[top[1]].comments)].mention
          = ReporterOf(top[1])

\* C18: no failure inside a poll cycle ends the loop of main: no exception
\* leaves main.
C18_MainNeverExits == main_pc # "exited"

\* C19: at the head of the loop of main, before every poll cycle, no ticket
\* is IN PROGRESS.
C19_NothingLeftInProgress ==
  main_pc = "loop" => \A key \in Keys : tracker[key].status # "IN PROGRESS"

\* The calls that follow the test of the key in poll_once.
AfterKeyTest == {"validate_ticket", "clone_repo", "find_resume_branch", "implement_ticket"}

\* C20: for a ticket whose key is not capital letters, a hyphen and digits,
\* poll_once builds no workspace and calls neither validate_ticket nor
\* clone_repo nor implement_ticket; it goes on to block the ticket, which is
\* BLOCKED and carries a comment when poll_once has returned.  And every
\* workspace handed to clone_repo lies directly in the workspace directory.
C20_MalformedKeyBlockedFirst ==
  /\ (ticket # <<>> /\ ~LettersHyphenDigits(ticket[1])) =>
       /\ workspace_dir = <<>>
       /\ \A i \in 1..Len(trace) : trace[i].call \notin AfterKeyTest
       /\ main_pc \in {"block", "comment", "sleep", "loop", "exited"}
       /\ (main_pc \in {"sleep", "loop"} /\ escaped = None) =>
            /\ tracker[ticket[1]].status = "BLOCKED"
            /\ tracker[ticket[1]].comments # <<>>
  /\ last_clone # <<>> =>
       /\ Len(last_clone[1].dest) = 2
       /\ last_clone[1].dest[1] = "workspaces"

\* The number a two-digit field of a "created" string stands for.
Number(two) == (ord(two[1]) - 48) * 10 + (ord(two[2]) - 48)

\* The moment a "created" string names, in minutes of UTC within its day:
\* the local time less the offset.
Instant(created) ==
  (Number(SubSeq(created, 12, 13)) * 60 + Number(SubSeq(created, 15, 16)))
    - (Number(SubSeq(created, 25, 26)) * 60 + Number(SubSeq(created, 27, 28)))

TypeRank(tk) == IF tk.issue_type = "Bug" THEN 0 ELSE 1

\* a has the higher of two named priorities.
HigherPriority(a, b) ==
  /\ a.priority \in DOMAIN _PRIORITY_ORDER
  /\ b.priority \in DOMAIN _PRIORITY_ORDER
  /\ _PRIORITY_ORDER[a.priority] < _PRIORITY_ORDER[b.priority]

\* The order of the candidates: a has to come before b.
ComesFirst(a, b) ==
  \/ TypeRank(a) < TypeRank(b)
  \/ TypeRank(a) = TypeRank(b) /\ HigherPriority(a, b)
  \/ /\ TypeRank(a) = TypeRank(b)
     /\ a.priority = b.priority
     /\ Instant(a.created) < Instant(b.created)

\* C21: in the list get_tickets_from_filter returns, no ticket stands
\* behind one it has to come before: a Bug comes before any Task or Story,
\* among equal type rank the higher priority comes first, and among equal
\* type rank and priority the one created earlier comes first.
C21_CandidatesInOrder ==
  last_search # <<>> =>
    LET listed == last_search[1].tickets
    IN \A i, j \in 1..Len(listed) :
         i < j => ~ComesFirst(listed[j], listed[i])

\* The places of the trace where the given function was called.
Places(name) == {i \in 1..Len(trace) : trace[i].call = name}

\* The places where the given function was called for the ticket of the
\* cycle and returned.
Returned_(name, arg) ==
  {i \in Made(name, arg) : trace[i].key = ticket}

\* C22: implement_ticket is called only for a key that passed the test of
\* main.py:229 and only after, in this order in the same cycle,
\* validate_ticket returned a valid result, clone_repo returned,
\* transition_ticket to IN PROGRESS returned and add_label returned; and it
\* is not called in a cycle where validate_ticket raised or returned an
\* invalid result, or where clone_repo raised, as it does for a valid
\* result without a repository URL.
C22_ImplementAfterPreparation ==
  /\ \A k \in Places("implement_ticket") :
       /\ trace[k].key = ticket
       /\ _TICKET_KEY_RE_match(ticket[1])
       /\ validation # <<>> /\ validation[1].valid
       /\ \E a \in Returned_("validate_ticket", ""),
             b \in {i \in Places("clone_repo") : trace[i].raises = None /\ trace[i].key = ticket},
             c \in Returned_("transition_ticket", "IN PROGRESS"),
             d \in Returned_("add_label", "ngn-handled") :
            a < b /\ b < c /\ c < d /\ d < k
  /\ ( \/ \E i \in Places("validate_ticket") : trace[i].raises # None
       \/ validation # <<>> /\ ~validation[1].valid
       \/ validation # <<>> /\ validation[1].repo_url = <<>> /\ Places("clone_repo") # {}
       \/ \E i \in Places("clone_repo") : trace[i].raises # None )
     => Places("implement_ticket") = {}

\* implement_ticket has been called, and has returned, in a cycle that
\* found an earlier branch of the ticket.
C22_Witness ==
  /\ Places("implement_ticket") # {}
  /\ impl # <<>>
  /\ resume_branch # <<>>

\* C23: a poll cycle works on the first ticket of the list only: every call
\* it makes for a ticket, the fetching of ancestors aside, is for that
\* ticket, and it calls validate_ticket, clone_repo and implement_ticket at
\* most once each; with an empty list it makes no call after the search and
\* leaves the tracker and the disk as they were.
C23_OneTicketPerCycle ==
  /\ \A i \in 1..Len(trace) :
       (trace[i].call # "get_tickets_from_filter"
          /\ ~(trace[i].call = "get_ticket" /\ i > 1 /\ trace[i].key # top))
       => (tickets # <<>> /\ trace[i].key = <<tickets[1]>>)
  /\ \A i, j \in Places("get_ticket") :
       (i < j) => (trace[i].key = top /\ trace[j].key # top)
  /\ \A name \in {"validate_ticket", "clone_repo", "implement_ticket"} :
       Cardinality(Places(name)) <= 1
  /\ (tickets = <<>>) => Len(trace) <= 1

\* The list held two tickets, the first has been implemented and moved to IN
\* REVIEW, and the second is still READY.
C23_Witness ==
  /\ Len(tickets) = 2
  /\ main_pc = "sleep"
  /\ Places("implement_ticket") # {}
  /\ tracker[tickets[1]].status = "IN REVIEW"
  /\ tracker[tickets[2]].status = "READY"

\* The strings _run_command returns when the subprocess did not end by
\* itself.
TimeoutError_ == "Error: command timed out after 120 seconds"

LaunchError == "Error running command: [Errno 2] No such file or directory"

\* What the command wrote, standard output first.
Combined(run) == run.stdout \o run.stderr

ExecutableTools == {"read_file", "write_file", "list_directory", "run_command"}

\* A tool invocation that names none of the executable tools and is not one
\* of the two signals that end the attempt.
IsUnknownTool(block) ==
  IsToolUse(block) /\ block.name \notin ExecutableTools /\ ~IsTerminalBlock(block)

\* The last message of the history answers the invocation with the given
\* text, under its identifier.
AnsweredWith(msgs, block, text) ==
  /\ msgs[Len(msgs)].role = "user"
  /\ \E i \in 1..Len(msgs[Len(msgs)].content) :
       msgs[Len(msgs)].content[i]
         = [type |-> "tool_result", tool_use_id |-> block.id, content |-> text]

\* C25: when a response under the token limit and without a terminal block
\* holds a tool invocation that names no executable tool, the loop goes on:
\* no exception, no outcome, the string "Unknown tool: <name>" appended to
\* the history under the identifier of the invocation, and the next turn,
\* with its provider call, follows.
C25_UnknownToolAnswered ==
  [][(pc = "returned" /\ response' # <<>>
        /\ UnderLimit(response'[1]) /\ ~HasTerminal(response'[1].content))
      => \A i \in 1..Len(response'[1].content) :
           IsUnknownTool(response'[1].content[i]) =>
             /\ pc' = "turn" /\ turn' = turn + 1
             /\ raised' = None /\ result' = <<>>
             /\ AnsweredWith(messages', response'[1].content[i],
                             "Unknown tool: " \o response'[1].content[i].name)]_vars

\* The string _write_file returns when it has written.
WroteMessage(call) ==
  "Wrote " \o ToString(Len(call.content)) \o " bytes to " \o PathStr(call.path)

\* C26: when write_file has written a content to a path inside the
\* workspace and read_file is called next with the same path, read_file
\* returns that content, character for character.
C26_WriteThenReadReturnsContent ==
  [][(/\ last_call # <<>>
      /\ last_call[1].name = "write_file"
      /\ last_call[1].value = WroteMessage(last_call[1])
      /\ tool_calls' = tool_calls + 1
      /\ last_call'[1].name = "read_file"
      /\ last_call'[1].path = last_call[1].path) =>
        last_call'[1].value = Text(last_call[1].content)]_files_vars

\* C27: a listing of a directory holds each entry of the directory once,
\* with a prefix; every line with the prefix d stands before every line with
\* the prefix f, and the names of each of the two groups ascend; the listing
\* of a directory that holds nothing is "(empty)".
C27_DirectoriesThenFiles ==
  (last_call # <<>> /\ Last.name = "list_directory" /\ IsDir(fs, resolve(fs, Last.path))) =>
    LET held == iterdir(fs, resolve(fs, Last.path))
    IN /\ Len(Last.lines) = Cardinality(held)
       /\ \A e \in held : \E i \in 1..Len(Last.lines) : Last.lines[i].name = e[Len(e)]
       /\ \A i \in 1..Len(Last.lines) : Last.lines[i].prefix \in {"d", "f"}
       /\ \A i, j \in 1..Len(Last.lines) :
            i < j =>
              /\ ~(Last.lines[i].prefix = "f" /\ Last.lines[j].prefix = "d")
              /\ Last.lines[i].prefix = Last.lines[j].prefix =>
                   StrLess(Spelling(Last.lines[i].name), Spelling(Last.lines[j].name))
       /\ held = {} => Last.value = "(empty)"

\* C28: when poll_once has returned, or has raised an error of the tracker
\* that main catches, main hands time.sleep 30 seconds less the seconds the
\* cycle took when that is more than nothing, and does not call it
\* otherwise; the next pass of the loop begins 30 seconds or more after this
\* one began.
C28_SleepsRestOfInterval ==
  [][(main_pc = "sleep" /\ main_pc' = "loop") =>
       /\ pause' # <<>>
       /\ escaped \in {None} \cup HttpxErrors
       /\ LET p == pause'[1]
          IN /\ (30 - p.elapsed > 0) => p.slept = <<30 - p.elapsed>>
             /\ (30 - p.elapsed <= 0) => p.slept = <<>>
             /\ p.gap >= 30]_poll_vars

\* A cycle that took 5 seconds and ended with a connection error of the
\* tracker has been followed by a sleep of 25 seconds.
C28_Witness ==
  /\ main_pc = "loop"
  /\ escaped = "httpx.ConnectError"
  /\ pause # <<>>
  /\ pause[1].elapsed = 5
  /\ pause[1].slept = <<25>>

\* The names of the five checks, in the order of validate_setup.
CheckNames ==
  <<"Environment variables", "JIRA authentication", "Filter accessible",
    "Issue types", "Statuses">>

\* validate_setup has returned.
SetupReturned == cli_validate /\ cli_pc \in {"report", "exited"}

Skipped(i) == ~checks[i].passed /\ checks[i].detail = "skipped"

\* C29: validate_setup returns exactly five results, named Environment
\* variables, JIRA authentication, Filter accessible, Issue types and
\* Statuses in that order.  When the environment check failed no request
\* was made and the other four are marked skipped; when authentication
\* failed it was the only request and the last three are marked skipped;
\* when both passed, all four requests were made and none of the last
\* three checks is marked skipped, whatever the filter and the issue-type
\* checks found.
C29_FiveResultsInOrder ==
  SetupReturned =>
    /\ Len(checks) = 5
    /\ \A i \in 1..5 : checks[i].name = CheckNames[i]
    /\ ~checks[1].passed => http_gets = <<>> /\ \A i \in 2..5 : Skipped(i)
    /\ checks[1].passed /\ ~checks[2].passed =>
         /\ http_gets = <<"/rest/api/3/myself">>
         /\ \A i \in 3..5 : Skipped(i)
    /\ checks[1].passed /\ checks[2].passed =>
         /\ http_gets = <<"/rest/api/3/myself", "/rest/api/3/filter/99",
                          "/rest/api/3/issuetype", "/rest/api/3/status">>
         /\ \A i \in 3..5 : checks[i].detail # "skipped"

\* validate_setup has returned after the filter was not found and the issue
\* types were incomplete, and the statuses were all found.
C29_Witness ==
  /\ SetupReturned
  /\ checks[3] = CheckResult("Filter accessible", FALSE, "HTTP 404")
  /\ ~checks[4].passed
  /\ checks[5].passed

\* C30: with --validate the polling loop is never entered, and once the
\* process has exited the transitions warning is the last line printed and
\* the exit code is 0 when every check passed and 1 otherwise, a skipped
\* check counting as one that did not pass.
C30_ValidateExitCode ==
  cli_validate =>
    /\ cli_pc # "polling"
    /\ cli_pc = "exited" =>
         /\ stdout_lines # <<>>
         /\ stdout_lines[Len(stdout_lines)] = TransitionsWarning
         /\ (exit_code = <<0>>) <=> (\A i \in 1..Len(checks) : checks[i].passed)
         /\ (exit_code = <<1>>) <=>
              (\E i \in 1..Len(checks) : ~checks[i].passed \/ checks[i].detail = "skipped")

\* The process has exited with code 1 after --validate found the statuses
\* incomplete, every other check having passed.
C30_Witness ==
  /\ cli_validate
  /\ cli_pc = "exited"
  /\ exit_code = <<1>>
  /\ \A i \in 1..4 : checks[i].passed
  /\ ~checks[5].passed

\* The characters of inner occur in outer, side by side and in order.
Within(inner, outer) ==
  \E i \in 0..(Len(outer) - Len(inner)) : SubSeq(outer, i + 1, i + Len(inner)) = inner

\* C31: find_resume_branch never lets an exception out.  It returns False
\* when subprocess.run raises and when the query writes nothing to its
\* standard output, whatever its exit code, and it returns True only when
\* that output holds the name refs/heads/<branch> of the branch asked for.
C31_ResumeBranchNeverRaises ==
  last_query # <<>> =>
    LET q == last_query[1]
    IN /\ q.raised = None
       /\ q.value \in {<<TRUE>>, <<FALSE>>}
       /\ q.run.raises # None => q.value = <<FALSE>>
       /\ q.run.raises = None /\ q.run.stdout = <<>> => q.value = <<FALSE>>
       /\ q.value = <<TRUE>> =>
            /\ q.run.raises = None
            /\ Within(RefsHeads \o q.branch, q.run.stdout)

\* find_resume_branch has returned False for a query that failed with exit
\* code 128 and wrote nothing.
C31_Witness ==
  /\ last_query # <<>>
  /\ last_query[1].run = Completed(<<>>, 128)
  /\ last_query[1].value = <<FALSE>>
  /\ last_query[1].raised = None

\* The transitions of the call whose names are the status asked for, the
\* case of letters apart.
Matching(call) ==
  {i \in 1..Len(call.transitions) :
     lower(call.transitions[i].name) = lower(call.status_name)}

\* The POST requests of the call.
Posts(call) == SelectSeq(call.sent, LAMBDA req : req.method = "POST")

\* C32: once transition_ticket has read the transitions, it posts one
\* request, carrying the identifier of the first transition whose name is
\* the status asked for with the case of letters ignored; when there is no
\* such transition it raises ValueError, posts nothing, and the issue keeps
\* its status.
C32_TransitionByName ==
  last_transition # <<>> /\ last_transition[1].got \in {Responds(200), Responds(204)} =>
    LET call == last_transition[1]
    IN IF Matching(call) = {}
       THEN /\ call.raised = "ValueError"
            /\ Posts(call) = <<>>
            /\ call.after = call.before
       ELSE /\ Len(Posts(call)) = 1
            /\ \E i \in Matching(call) :
                 /\ Posts(call)[1].id = call.transitions[i].id
                 /\ \A j \in Matching(call) : i <= j
            /\ call.raised # "ValueError"

\* BLOCKED has been asked for where the tracker offers Blocked: the
\* transition 21 has been posted and carried out.
C32_Witness ==
  /\ last_transition # <<>>
  /\ last_transition[1].status_name = "BLOCKED"
  /\ last_transition[1].raised = None
  /\ Len(last_transition[1].sent) = 2
  /\ last_transition[1].sent[2].id = "21"
  /\ last_transition[1].after = "Blocked"

\* What lies at dest and below it on the file system f.
Below(f, dest) == {loc \in DOMAIN f : is_relative_to(loc, dest)}

\* C33: when clone_repo, called with an allowed URL, returns without
\* raising, all that lies at the destination and below it is what the clone
\* has put there: nothing that was there before the call remains.  When
\* git has ended with an exit code other than 0, clone_repo has raised
\* RuntimeError.
C33_WorkspaceRecreated ==
  [][(/\ clone_calls' = clone_calls + 1
      /\ \E prefix \in _ALLOWED_URL_PREFIXES : startswith(last_clone'[1].repo_url, prefix)) =>
        LET dest == last_clone'[1].dest
            fresh == Cloned(FreshDisk, dest)
        IN /\ last_clone'[1].raised = None =>
                /\ Below(disk', dest) = Below(fresh, dest)
                /\ \A loc \in Below(disk', dest) : disk'[loc] = fresh[loc]
           /\ (last_clone'[1].returncode # <<>> /\ last_clone'[1].returncode[1] # 0) =>
                last_clone'[1].raised = "RuntimeError"]_clone_vars

\* clone_repo has returned for the workspace of PROJ-1, where the agent had
\* left stale_file.txt after an earlier clone; the file is gone.
C33_Witness ==
  /\ last_clone # <<>>
  /\ last_clone[1].stale
  /\ last_clone[1].dest = WorkspaceRoot
  /\ last_clone[1].raised = None
  /\ ~Exists(disk, WorkspaceRoot \o <<"stale_file.txt">>)
  /\ IsFile(disk, WorkspaceRoot \o <<"README.md">>)

\* C34: an attempt that is over has produced one outcome, and an outcome
\* has one of two shapes: success True with blocked_reason None, or success
\* False with pr_url None and a blocked_reason that is not None.
C34_OutcomeShape ==
  /\ pc \in {"done", "raised"} => Len(result) = 1
  /\ result # <<>> =>
       /\ Len(result) = 1
       /\ \/ result[1].success = TRUE /\ result[1].blocked_reason = None
          \/ /\ result[1].success = FALSE
             /\ result[1].pr_url = None
             /\ result[1].blocked_reason # None

\* The line that opens the section of a ticket in a prompt.
KeyLine(key) == "Key: " \o key

\* The tickets a prompt shows, in the order of their sections.
Shown(prompt) == SelectSeq(prompt, LAMBDA l : l \in {KeyLine(key) : key \in WalkKeys})

\* The ancestors of the ticket from the outermost to the innermost, and then
\* the ticket itself.
OutermostFirst == [i \in 1..(Len(lineage) + 1) |->
                     KeyLine(IF i <= Len(lineage) THEN lineage[i] ELSE subject)]

\* C35: when the loop over the parents is over, poll_once has fetched each
\* ancestor once, the parent of the ticket first and then each one's own
\* parent, and its list holds them from the outermost, which has no parent,
\* to the parent of the ticket; the prompt of validate_ticket and the prompt
\* of implement_ticket show the sections of these ancestors in that order
\* and then the section of the ticket.
C35_AncestorsOutermostFirst ==
  walk_pc \in {"validate", "implement", "over"} =>
    /\ Len(fetches) = Len(lineage)
    /\ \A i \in 1..Len(lineage) : fetches[i] = lineage[Len(lineage) + 1 - i]
    /\ \A i \in 1..Len(lineage) :
         hierarchy[IF i = Len(lineage) THEN subject ELSE lineage[i + 1]] = <<lineage[i]>>
    /\ lineage # <<>> => hierarchy[lineage[1]] = <<>>
    /\ walk_pc \in {"implement", "over"} => Shown(validator_prompt) = OutermostFirst
    /\ coder_prompt # <<>> => Shown(coder_prompt) = OutermostFirst

\* PROJ-1 has been validated and implemented with its three ancestors.
C35_Witness ==
  /\ walk_pc = "over"
  /\ subject = "PROJ-1"
  /\ lineage = <<"PROJ-4", "PROJ-3", "PROJ-2">>
  /\ validator_prompt # <<>>
  /\ coder_prompt # <<>>

\* The issues reached from key by following parent references, the ones in
\* seen set aside.
RECURSIVE Upward(_, _, _)
Upward(h, key, seen) ==
  IF h[key] = <<>> \/ h[key][1] \in seen THEN seen
  ELSE Upward(h, h[key][1], seen \cup {h[key][1]})

\* The distinct ancestors of the ticket poll_once has selected.
DistinctAncestors == Upward(hierarchy, subject, {})

\* C40: whatever the parent references of the tracker, cyclic ones
\* included, the loop over the parents fetches no more tickets than the
\* selected ticket has distinct ancestors.
C40_OneFetchPerDistinctAncestor ==
  Len(fetches) <= Cardinality(DistinctAncestors)

\* C36: the history of implement_ticket begins with a user message and its
\* roles alternate user, assistant, user, ...; while the k-th provider call
\* of the attempt is under way the history has 2k - 1 messages, the last of
\* them a user message; a retry within the call leaves the history as it
\* is.
C36_HistoryAlternates ==
  /\ [](/\ messages # <<>>
        /\ \A i \in 1..Len(messages) :
             messages[i].role = IF i % 2 = 1 THEN "user" ELSE "assistant"
        /\ pc = "call" =>
             /\ Len(messages) = 2 * calls - 1
             /\ messages[Len(messages)].role = "user")
  /\ [][(pc = "call" /\ pc' = "call") => messages' = messages]_vars

\* The third provider call of an attempt is being retried: it has failed
\* twice, and the history has five messages.
C36_Witness ==
  /\ pc = "call"
  /\ calls = 3
  /\ creates = 2
  /\ Len(messages) = 5

\* C37: the user message implement_ticket appends after an assistant
\* response holds at least one tool result, whatever the response.
C37_NoEmptyUserMessage ==
  [][Len(messages') = Len(messages) + 2 =>
       /\ messages'[Len(messages')].role = "user"
       /\ messages'[Len(messages')].content # <<>>]_vars

\* C38: implement_ticket is left by an exception only when a provider call
\* raises an error that is not a status error; within one provider call it
\* makes at most 60 attempts, over the whole attempt at most 100 provider
\* calls, and it receives at most 100 responses; a retry leaves the turn
\* counter as it is.
C38_TerminatesWithOutcome ==
  /\ [](/\ pc = "raised" => raised = "APIConnectionError"
        /\ creates <= 60
        /\ calls <= 100
        /\ nresponses <= 100)
  /\ [][(pc = "call" /\ pc' = "call") => turn' = turn]_vars

\* The places where poll_once asked the tracker for the given status, whether
\* the call returned or raised.
Issued(status) ==
  {i \in Places("transition_ticket") : trace[i].arg = status}

\* C39: in one poll cycle IN REVIEW is asked for only after the transition to
\* IN PROGRESS returned in the same cycle and only when implement_ticket
\* returned a successful outcome; when the cycle is over without a call of
\* implement_ticket, the only transition the ticket received is one to
\* BLOCKED and no add_label call returned; and a cycle asks for at most two
\* transitions, never for both IN REVIEW and BLOCKED.
C39_TransitionsInOrder ==
  /\ \A k \in Issued("IN REVIEW") :
       /\ \E j \in Made("transition_ticket", "IN PROGRESS") : j < k
       /\ impl # <<>> /\ impl[1].success
  /\ (CycleOver /\ ticket # <<>> /\ Places("implement_ticket") = {}) =>
       /\ \A i \in Places("transition_ticket") :
            trace[i].raises = None => trace[i].arg = "BLOCKED"
       /\ Cardinality(Made("transition_ticket", "BLOCKED")) <= 1
       /\ Made("add_label", "ngn-handled") = {}
  /\ Cardinality(Places("transition_ticket")) <= 2
  /\ Issued("IN REVIEW") = {} \/ Issued("BLOCKED") = {}


====
